---- MODULE Spec2Model ----
(***************************************************************************)
(* Verification model of the dashboard front-end: the My Stuff dashboard   *)
(* (saved charts: load, edit, delete, optimistic reorder), the per-        *)
(* subsystem dashboard views (panel loads and their request bookkeeping),  *)
(* the tenant dashboard root, and the request building of the API client.  *)
(*                                                                         *)
(* Each component is one record-valued variable whose fields carry the     *)
(* names of the component's `let` variables.  Requests in flight are       *)
(* records in a set; a response is delivered by a Resolve action, in any   *)
(* order (the browser's event loop gives no ordering between fetches).     *)
(* `ev` records the handler or continuation that ran last and its inputs.  *)
(***************************************************************************)
EXTENDS Integers, Sequences, FiniteSets, TLC

VARIABLES
    ms,       \* MyStuffDashboard.svelte component state
    msNet,    \* My Stuff requests in flight
    msSrv,    \* the saved-items service: the stored items, in display order
    msSeq,    \* number of My Stuff requests issued so far
    msOps,    \* handler invocations the user has left in this run
    lehr,     \* LehrInspectionDashboard component state
    scale,    \* ScaleWeightDashboard component state
    root,     \* TenantDashboard component state, with the stores it selects in
    sw,       \* SidewallDashboard component state
    shift,    \* ShiftDashboard component state
    api,      \* the API client: a range option and the query built from it
    client,   \* the API client: a call, what fetch gave it, and its outcome
    chart,    \* a chart primitive: its props and what it computes from them
    sel,      \* TenantDashboard: its tenant, line and system selections alone
    props,    \* the props the parent passes to the mounted dashboard view
    dashNet,  \* dashboard loads in flight
    dashSeq,  \* number of dashboard loads issued so far
    dashOps,  \* dashboard handler invocations the user has left in this run
    shown,    \* per load function: the load whose outcome its panels show
    ev        \* the handler / continuation that ran last, with its inputs

msVars == <<ms, msNet, msSrv, msSeq, msOps>>
pureVars == <<client, chart, sel>>
dashVars ==
    <<lehr, scale, root, sw, shift, props, dashNet, dashSeq, dashOps, shown, api, pureVars>>
vars == <<msVars, dashVars, ev>>

\* What the handlers of one component leave alone.
MsFrame == UNCHANGED dashVars
LehrFrame == UNCHANGED <<msVars, scale, root, sw, shift, api, pureVars>>
ScaleFrame == UNCHANGED <<msVars, lehr, root, sw, shift, api, pureVars>>
RootFrame == UNCHANGED <<msVars, lehr, scale, shown, api, pureVars>>
ViewsFrame ==
    UNCHANGED <<msVars, lehr, scale, root, sw, shift, props, dashNet, dashSeq, dashOps, shown>>
ApiFrame == ViewsFrame /\ UNCHANGED pureVars
ClientFrame == ViewsFrame /\ UNCHANGED <<api, chart, sel>>
ChartFrame == ViewsFrame /\ UNCHANGED <<api, client, sel>>
SelFrame == ViewsFrame /\ UNCHANGED <<api, client, chart>>

Null == "null"

(***************************************************************************)
(* Bounds                                                                  *)
(***************************************************************************)
NumItems == 2          \* saved items the service holds at most
MaxMsOps == 3          \* user operations of one run, any handler
MaxOrderOps == 5       \* user operations of one run, reorder and delete only
MaxSeriesOps == 6      \* user operations of one run, series editor and reorder
MaxSeriesCharts == 1   \* saved items on the page of such a run
MaxLehrOps == 1        \* user operations of one run on the Lehr view
MaxScaleOps == 1       \* user operations of one run on the scale weight view
MaxRootOps == 3        \* user operations and failed requests of one run on a general dashboard
MaxTenantOps == 1      \* user operations and failed requests of one run over the tenants
MaxSwitchOps == 2      \* tenant selections and failed requests of one run of tenant switches
MaxDedicatedOps == 1   \* range selections and failed requests of one run on a sidewall tenant
MaxSelectOps == 3      \* selections and failed requests of one run of the root's selections
MaxLabels == 2         \* labels of a chart
MaxPoints == 3         \* values of a chart series
MaxSeriesCount == 2    \* series of a chart

(***************************************************************************)
(* Generic helpers                                                         *)
(***************************************************************************)
Range(s) == {s[k] : k \in DOMAIN s}

Perms(S) == {p \in [1..Cardinality(S) -> S] : Range(p) = S}

NoEv == [op |-> "init", id |-> 0, title |-> <<>>, ids |-> <<>>, pre |-> <<>>,
         seq |-> 0, flag |-> FALSE]

Ev(op, id) == [NoEv EXCEPT !.op = op, !.id = id]

(***************************************************************************)
(* My Stuff: data                                                          *)
(***************************************************************************)
ItemIds == 1..NumItems

\* Titles are character sequences, so that trim() is computed, not assumed.
TitleInputs == {<<>>, <<" ">>, <<"a">>, <<"b">>}
InitialTitle == <<"a">>

\* The SQL column behind the single series of every saved chart, and the
\* display names a user may type for it.
SourceColumn == "col"
NameInputs == {"col", "x"}

Timeframes == {"hours24"}
DefaultTimeframe == "days7"

\* series_config as AddToMyStuffButton writes it: name and color, no column.
\* A null series_config and an empty one are the same to every reader of
\* the field, and both are the empty sequence here.
LegacyConfig == <<[column |-> Null, name |-> SourceColumn]>>

Item(i, title, cfg) == [id |-> i, title |-> title, series_config |-> cfg]

Ids(list) == [k \in DOMAIN list |-> list[k].id]

RECURSIVE TrimStart(_)
TrimStart(s) == IF s # <<>> /\ Head(s) = " " THEN TrimStart(Tail(s)) ELSE s

RECURSIVE TrimEnd(_)
TrimEnd(s) ==
    IF s # <<>> /\ s[Len(s)] = " " THEN TrimEnd(SubSeq(s, 1, Len(s) - 1)) ELSE s

Trim(s) == TrimEnd(TrimStart(s))

\* Array.findIndex by id: 0 stands for -1.
FindIndex(list, i) ==
    IF \E k \in DOMAIN list : list[k].id = i
    THEN CHOOSE k \in DOMAIN list : list[k].id = i
    ELSE 0

HasItem(list, i) == FindIndex(list, i) # 0

ItemById(list, i) == list[FindIndex(list, i)]

\* items[idx] = updated, when idx !== -1.
ReplaceItem(list, updated) ==
    LET idx == FindIndex(list, updated.id)
    IN IF idx # 0 THEN [list EXCEPT ![idx] = updated] ELSE list

\* items.filter((i) => i.id !== item.id)
RemoveItem(list, i) == SelectSeq(list, LAMBDA it : it.id # i)

\* The list reordered as the id sequence says.
OrderBy(list, ids) == [k \in DOMAIN ids |-> ItemById(list, ids[k])]

\* The lists the service may hold when the page is opened: items 1..n in
\* display order, each saved from a chat with or without series.
InitialLists ==
    UNION {{[k \in 1..n |-> Item(k, InitialTitle, c[k])] :
                c \in [1..n -> {<<>>, LegacyConfig}]} : n \in 0..NumItems}

NoData == [loaded |-> FALSE, names |-> <<>>, tf |-> Null, seq |-> 0]

NoRequest ==
    [kind |-> "none", seq |-> 0, id |-> 0, title |-> <<>>, cfg |-> <<>>, tf |-> Null,
     items |-> <<>>, pre |-> <<>>, clean |-> TRUE, cont |-> "none"]

MsInit ==
    [mounted |-> FALSE,
     items |-> <<>>, lastCommittedItems |-> <<>>, loading |-> TRUE, error |-> Null,
     chartDataCache |-> [i \in ItemIds |-> NoData],
     chartLoadingStates |-> [i \in ItemIds |-> FALSE],
     chartErrors |-> [i \in ItemIds |-> Null],
     chartTimeframes |-> [i \in ItemIds |-> Null],
     editingTitleId |-> 0, editingTitleValue |-> <<>>,
     editingSeriesId |-> 0, editingSeriesConfig |-> <<>>,
     dragBase |-> <<>>]

\* Which branch of the template is shown.
MsView ==
    IF ms.loading THEN "loading"
    ELSE IF ms.error # Null THEN "error"
    ELSE IF Len(ms.items) = 0 THEN "empty"
    ELSE "grid"

\* A card of the grid the user can act on (no drag in progress).
MsCard(i) == MsView = "grid" /\ HasItem(ms.items, i) /\ ms.dragBase = <<>>

(***************************************************************************)
(* My Stuff: the saved-items service as the client sees it                 *)
(***************************************************************************)
\* The series names of a chart-data response.  With no matching entry in
\* the series_config sent, a series is named after its SQL column; an entry
\* matches by its column (or, lacking one, by its name) and renames it.
ChartDataResponse(cfg) ==
    IF cfg # <<>> /\ (cfg[1].column = SourceColumn
                        \/ (cfg[1].column = Null /\ cfg[1].name = SourceColumn))
    THEN <<cfg[1].name>>
    ELSE <<SourceColumn>>

(***************************************************************************)
(* My Stuff: the array `items` and the arrays that alias it                *)
(***************************************************************************)
\* handleDndFinalize keeps `newItems`, the very array it assigned to
\* `items`, for its continuation.  `clean` says that `items` still is that
\* array: an assignment to `items` ends it, `items[idx] = updated` writes
\* through it.
Reassigned(net) ==
    {IF q.kind = "reorder" THEN [q EXCEPT !.clean = FALSE] ELSE q : q \in net}

WrittenThrough(net, updated) ==
    {IF q.kind = "reorder" /\ q.clean
     THEN [q EXCEPT !.items = ReplaceItem(q.items, updated)] ELSE q : q \in net}

(***************************************************************************)
(* My Stuff: loadItems and loadChartData                                   *)
(***************************************************************************)
\* The timeframe loadChartData sends: the override, else the persisted one.
ChartTimeframe(m, item) ==
    IF m.chartTimeframes[item.id] # Null THEN m.chartTimeframes[item.id]
    ELSE DefaultTimeframe

\* loadChartData up to its await: the request, with its arguments as read
\* at the call, and the loading flag.
ChartRequest(m, item, seq, cont) ==
    [NoRequest EXCEPT !.kind = "chart", !.seq = seq, !.id = item.id,
                      !.tf = ChartTimeframe(m, item), !.cfg = item.series_config,
                      !.cont = cont]

LoadChartDataStart(m, item) == [m EXCEPT !.chartLoadingStates[item.id] = TRUE]

\* Promise.all(items.map((item) => loadChartData(item)))
FanOutRequests(m, list, seq) ==
    {ChartRequest(m, list[k], seq + k, "loadItems") : k \in DOMAIN list}

FanOutStart(m, list) ==
    [m EXCEPT !.chartLoadingStates =
        [i \in ItemIds |-> IF HasItem(list, i) THEN TRUE ELSE m.chartLoadingStates[i]]]

\* onMount, and the error state's "Try Again": loadItems up to its await.
MsLoadItems ==
    /\ \/ ~ms.mounted
       \/ ms.mounted /\ MsView = "error" /\ msOps > 0
    /\ ms' = [ms EXCEPT !.mounted = TRUE, !.loading = TRUE, !.error = Null]
    /\ msNet' = msNet \cup {[NoRequest EXCEPT !.kind = "getItems", !.seq = msSeq + 1]}
    /\ msSeq' = msSeq + 1
    /\ msOps' = IF ms.mounted THEN msOps - 1 ELSE msOps
    /\ ev' = Ev("loadItems", 0)
    /\ UNCHANGED msSrv
    /\ MsFrame

\* A variant of loadItems that leaves the spinner on when there is nothing
\* to wait for.
LoadItemsKeepsLoading(m, list) ==
    [FanOutStart(m, list) EXCEPT !.items = list, !.lastCommittedItems = list,
                                 !.loading = TRUE]

\* loadItems after getSavedItems answered: the fan-out, and with no item to
\* wait for, the finally block.
LoadItemsLoaded(m, list) ==
    [FanOutStart(m, list) EXCEPT !.items = list, !.lastCommittedItems = list,
                                 !.loading = (list # <<>>)]

MsGetItemsOk(r) ==
    /\ r.kind = "getItems"
    /\ ms' = LoadItemsLoaded(ms, msSrv)
    /\ msNet' = Reassigned(msNet \ {r}) \cup FanOutRequests(ms, msSrv, msSeq)
    /\ msSeq' = msSeq + Len(msSrv)
    /\ ev' = [Ev("getItemsOk", 0) EXCEPT !.ids = Ids(msSrv)]
    /\ UNCHANGED <<msSrv, msOps>>
    /\ MsFrame

MsGetItemsFail(r) ==
    /\ r.kind = "getItems"
    /\ ms' = [ms EXCEPT !.error = "Failed to load saved items", !.loading = FALSE]
    /\ msNet' = msNet \ {r}
    /\ ev' = Ev("getItemsFail", 0)
    /\ UNCHANGED <<msSrv, msSeq, msOps>>
    /\ MsFrame

\* What runs once loadChartData has returned to the caller that awaited it.
ChartContinuation(m, r, net) ==
    IF r.cont = "loadItems"
    THEN IF \E q \in net : q.kind = "chart" /\ q.cont = "loadItems" THEN m
         ELSE [m EXCEPT !.loading = FALSE]
    ELSE IF r.cont = "saveSeries"
    THEN [m EXCEPT !.editingSeriesId = 0, !.editingSeriesConfig = <<>>]
    ELSE m

\* loadChartData after its await.  outcome: "ok" (data), "soft" (a 200
\* response carrying data.error), "throw" (the request failed).
ChartLoaded(m, r, outcome) ==
    LET m1 == IF outcome = "ok"
              THEN [m EXCEPT !.chartDataCache[r.id] =
                                 [loaded |-> TRUE, names |-> ChartDataResponse(r.cfg),
                                  tf |-> r.tf, seq |-> r.seq],
                             !.chartErrors[r.id] = Null]
              ELSE IF outcome = "soft"
              THEN [m EXCEPT !.chartErrors[r.id] = "data.error"]
              ELSE [m EXCEPT !.chartErrors[r.id] = "Failed to load chart data"]
    IN [m1 EXCEPT !.chartLoadingStates[r.id] = FALSE]

MsResolveChart(r, outcome) ==
    /\ r.kind = "chart"
    /\ ms' = ChartContinuation(ChartLoaded(ms, r, outcome), r, msNet \ {r})
    /\ msNet' = msNet \ {r}
    /\ ev' = [Ev("chart_" \o outcome, r.id) EXCEPT !.seq = r.seq]
    /\ UNCHANGED <<msSrv, msSeq, msOps>>
    /\ MsFrame

MsHandleRefresh(i) ==
    /\ MsCard(i) /\ msOps > 0
    /\ ms' = LoadChartDataStart(ms, ItemById(ms.items, i))
    /\ msNet' = msNet \cup {ChartRequest(ms, ItemById(ms.items, i), msSeq + 1, "none")}
    /\ msSeq' = msSeq + 1
    /\ msOps' = msOps - 1
    /\ ev' = [Ev("handleRefresh", i) EXCEPT !.seq = msSeq + 1]
    /\ UNCHANGED msSrv
    /\ MsFrame

MsHandleTimeframeChange(i, tf) ==
    /\ MsCard(i) /\ msOps > 0
    /\ LET m1 == [ms EXCEPT !.chartTimeframes[i] = tf]
       IN /\ ms' = LoadChartDataStart(m1, ItemById(ms.items, i))
          /\ msNet' = msNet \cup {ChartRequest(m1, ItemById(ms.items, i), msSeq + 1, "none")}
    /\ msSeq' = msSeq + 1
    /\ msOps' = msOps - 1
    /\ ev' = [Ev("handleTimeframeChange", i) EXCEPT !.seq = msSeq + 1]
    /\ UNCHANGED msSrv
    /\ MsFrame

(***************************************************************************)
(* My Stuff: delete                                                        *)
(***************************************************************************)
\* handleDelete up to its await; declining the confirm() returns at once.
MsHandleDelete(i) ==
    /\ MsCard(i) /\ msOps > 0
    /\ msNet' = msNet \cup {[NoRequest EXCEPT !.kind = "delete", !.seq = msSeq + 1, !.id = i]}
    /\ msSeq' = msSeq + 1
    /\ msOps' = msOps - 1
    /\ ev' = Ev("handleDelete", i)
    /\ UNCHANGED <<ms, msSrv>>
    /\ MsFrame

\* handleDelete after deleteSavedItem succeeded.
Deleted(m, i) ==
    [m EXCEPT !.items = RemoveItem(m.items, i),
              !.lastCommittedItems = RemoveItem(m.items, i),
              !.chartDataCache[i] = NoData,
              !.chartTimeframes[i] = Null,
              !.chartErrors[i] = Null]

MsDeleteOk(r) ==
    /\ r.kind = "delete" /\ HasItem(msSrv, r.id)
    /\ msSrv' = RemoveItem(msSrv, r.id)
    /\ ms' = Deleted(ms, r.id)
    /\ msNet' = Reassigned(msNet \ {r})
    /\ ev' = [Ev("deleteOk", r.id) EXCEPT !.seq = r.seq]
    /\ UNCHANGED <<msSeq, msOps>>
    /\ MsFrame

MsDeleteFail(r) ==
    /\ r.kind = "delete"
    /\ msNet' = msNet \ {r}
    /\ ev' = [Ev("deleteFail", r.id) EXCEPT !.seq = r.seq]
    /\ UNCHANGED <<ms, msSrv, msSeq, msOps>>
    /\ MsFrame

(***************************************************************************)
(* My Stuff: inline title edit                                             *)
(***************************************************************************)
MsStartEditingTitle(i) ==
    /\ MsCard(i) /\ ms.editingTitleId # i
    /\ ms' = [ms EXCEPT !.editingTitleId = i,
                        !.editingTitleValue = ItemById(ms.items, i).title]
    /\ ev' = Ev("startEditingTitle", i)
    /\ msOps > 0 /\ msOps' = msOps - 1
    /\ UNCHANGED <<msNet, msSrv, msSeq>>
    /\ MsFrame

\* A variant of saveTitle's early returns without the second one.
SaveTitleReturnsOnEmptyOnly(value, item) == Trim(value) = <<>>

\* The two early returns of saveTitle.
SaveTitleReturnsEarly(value, item) == Trim(value) = <<>> \/ value = item.title

\* saveTitle up to its await (on:blur, or Enter), with `typed` the text the
\* bound input holds by then (bind:value={editingTitleValue}).
MsSaveTitle(i, typed) ==
    /\ MsCard(i) /\ ms.editingTitleId = i /\ msOps > 0
    /\ LET item == ItemById(ms.items, i)
       IN IF SaveTitleReturnsEarly(typed, item)
          THEN /\ ms' = [ms EXCEPT !.editingTitleId = 0,
                                   !.editingTitleValue =
                                       IF Trim(typed) = <<>> THEN item.title ELSE typed]
               /\ UNCHANGED <<msNet, msSeq>>
          ELSE /\ msNet' = msNet \cup {[NoRequest EXCEPT !.kind = "title", !.seq = msSeq + 1,
                                                         !.id = i, !.title = typed]}
               /\ msSeq' = msSeq + 1
               /\ ms' = [ms EXCEPT !.editingTitleValue = typed]
    /\ msOps' = msOps - 1
    /\ ev' = [Ev("saveTitle", i) EXCEPT !.title = typed,
                                        !.pre = ItemById(ms.items, i).title]
    /\ UNCHANGED msSrv
    /\ MsFrame

MsTitleOk(r) ==
    /\ r.kind = "title" /\ HasItem(msSrv, r.id)
    /\ LET updated == [ItemById(msSrv, r.id) EXCEPT !.title = r.title]
       IN /\ msSrv' = ReplaceItem(msSrv, updated)
          /\ ms' = [ms EXCEPT !.items = ReplaceItem(ms.items, updated),
                              !.editingTitleId = 0]
          /\ msNet' = WrittenThrough(msNet \ {r}, updated)
    /\ ev' = [Ev("titleOk", r.id) EXCEPT !.title = r.title, !.seq = r.seq]
    /\ UNCHANGED <<msSeq, msOps>>
    /\ MsFrame

MsTitleFail(r) ==
    /\ r.kind = "title"
    /\ ms' = [ms EXCEPT !.editingTitleId = 0]
    /\ msNet' = msNet \ {r}
    /\ ev' = [Ev("titleFail", r.id) EXCEPT !.seq = r.seq]
    /\ UNCHANGED <<msSrv, msSeq, msOps>>
    /\ MsFrame

MsCancelEditingTitle ==
    /\ MsCard(ms.editingTitleId)
    /\ ms' = [ms EXCEPT !.editingTitleId = 0, !.editingTitleValue = <<>>]
    /\ ev' = Ev("cancelEditingTitle", ms.editingTitleId)
    /\ msOps > 0 /\ msOps' = msOps - 1
    /\ UNCHANGED <<msNet, msSrv, msSeq>>
    /\ MsFrame

(***************************************************************************)
(* My Stuff: series-config editor                                          *)
(***************************************************************************)
\* The editor's rows as startEditingSeries initialises them.
StartEditingConfig(item, chartData) ==
    IF Len(item.series_config) > 0
    THEN [k \in DOMAIN item.series_config |->
            [column |-> IF item.series_config[k].column # Null
                        THEN item.series_config[k].column
                        ELSE item.series_config[k].name,
             name |-> item.series_config[k].name]]
    ELSE IF chartData.loaded
    THEN [k \in DOMAIN chartData.names |->
            [column |-> chartData.names[k], name |-> chartData.names[k]]]
    ELSE <<>>

MsStartEditingSeries(i) ==
    /\ MsCard(i) /\ ms.editingSeriesId # i
    /\ ms' = [ms EXCEPT !.editingSeriesConfig =
                            StartEditingConfig(ItemById(ms.items, i), ms.chartDataCache[i]),
                        !.editingSeriesId = i]
    /\ ev' = Ev("startEditingSeries", i)
    /\ msOps > 0 /\ msOps' = msOps - 1
    /\ UNCHANGED <<msNet, msSrv, msSeq>>
    /\ MsFrame

UpdateSeriesName(config, index, name) ==
    [k \in DOMAIN config |-> IF k = index THEN [config[k] EXCEPT !.name = name]
                             ELSE config[k]]

MsUpdateSeriesName(index, name) ==
    /\ MsCard(ms.editingSeriesId)
    /\ index \in DOMAIN ms.editingSeriesConfig
    /\ ms.editingSeriesConfig[index].name # name
    /\ ms' = [ms EXCEPT !.editingSeriesConfig =
                            UpdateSeriesName(ms.editingSeriesConfig, index, name)]
    /\ ev' = Ev("updateSeriesName", ms.editingSeriesId)
    /\ msOps > 0 /\ msOps' = msOps - 1
    /\ UNCHANGED <<msNet, msSrv, msSeq>>
    /\ MsFrame

\* saveSeriesConfig up to its first await.
MsSaveSeriesConfig(i) ==
    /\ MsCard(i) /\ ms.editingSeriesId = i /\ msOps > 0
    /\ IF Len(ms.editingSeriesConfig) = 0
       THEN /\ ms' = [ms EXCEPT !.editingSeriesId = 0]
            /\ UNCHANGED <<msNet, msSeq>>
       ELSE /\ msNet' = msNet \cup {[NoRequest EXCEPT !.kind = "series", !.seq = msSeq + 1,
                                                      !.id = i, !.cfg = ms.editingSeriesConfig]}
            /\ msSeq' = msSeq + 1
            /\ UNCHANGED ms
    /\ msOps' = msOps - 1
    /\ ev' = Ev("saveSeriesConfig", i)
    /\ UNCHANGED msSrv
    /\ MsFrame

\* saveSeriesConfig after updateSavedItem succeeded, up to its second await
\* (loadChartData(updated)); the finally block runs when that returns.
MsSeriesOk(r) ==
    /\ r.kind = "series" /\ HasItem(msSrv, r.id)
    /\ LET updated == [ItemById(msSrv, r.id) EXCEPT !.series_config = r.cfg]
           m1 == [ms EXCEPT !.items = ReplaceItem(ms.items, updated)]
       IN /\ msSrv' = ReplaceItem(msSrv, updated)
          /\ ms' = LoadChartDataStart(m1, updated)
          /\ msNet' = WrittenThrough(msNet \ {r}, updated)
                        \cup {ChartRequest(m1, updated, msSeq + 1, "saveSeries")}
    /\ msSeq' = msSeq + 1
    /\ ev' = [Ev("seriesOk", r.id) EXCEPT !.seq = r.seq]
    /\ UNCHANGED msOps
    /\ MsFrame

MsSeriesFail(r) ==
    /\ r.kind = "series"
    /\ ms' = [ms EXCEPT !.editingSeriesId = 0, !.editingSeriesConfig = <<>>]
    /\ msNet' = msNet \ {r}
    /\ ev' = [Ev("seriesFail", r.id) EXCEPT !.seq = r.seq]
    /\ UNCHANGED <<msSrv, msSeq, msOps>>
    /\ MsFrame

MsCancelEditingSeries ==
    /\ MsCard(ms.editingSeriesId)
    /\ ms' = [ms EXCEPT !.editingSeriesId = 0, !.editingSeriesConfig = <<>>]
    /\ ev' = Ev("cancelEditingSeries", ms.editingSeriesId)
    /\ msOps > 0 /\ msOps' = msOps - 1
    /\ UNCHANGED <<msNet, msSrv, msSeq>>
    /\ MsFrame

(***************************************************************************)
(* My Stuff: drag-and-drop reorder                                         *)
(***************************************************************************)
\* on:consider: the list follows the drag.  dragBase remembers the order
\* the drag started from.
MsHandleDndConsider(p) ==
    /\ MsView = "grid"
    /\ p \in Perms(Range(Ids(ms.items)))
    /\ ms' = [ms EXCEPT !.items = OrderBy(ms.items, p),
                        !.dragBase = IF ms.dragBase = <<>> THEN Ids(ms.items)
                                     ELSE ms.dragBase]
    /\ msNet' = Reassigned(msNet)
    /\ ev' = [Ev("handleDndConsider", 0) EXCEPT !.ids = p]
    /\ msOps > 0 /\ msOps' = msOps - 1
    /\ UNCHANGED <<msSrv, msSeq>>
    /\ MsFrame

\* handleDndFinalize up to its await.
MsHandleDndFinalize(p) ==
    /\ MsView = "grid" /\ ms.dragBase # <<>> /\ msOps > 0
    /\ p \in Perms(Range(Ids(ms.items)))
    /\ LET newItems == OrderBy(ms.items, p)
       IN /\ ms' = [ms EXCEPT !.items = newItems, !.dragBase = <<>>]
          /\ msNet' = Reassigned(msNet)
                        \cup {[NoRequest EXCEPT !.kind = "reorder", !.seq = msSeq + 1,
                                                !.items = newItems, !.pre = ms.dragBase]}
    /\ msSeq' = msSeq + 1
    /\ msOps' = msOps - 1
    /\ ev' = [Ev("handleDndFinalize", 0) EXCEPT !.ids = p, !.seq = msSeq + 1]
    /\ UNCHANGED msSrv
    /\ MsFrame

\* A variant of the success branch that forgets to commit the order sent.
ReorderNotCommitted(m, r) == m

\* handleDndFinalize after reorderSavedItems succeeded.
ReorderCommitted(m, r) == [m EXCEPT !.lastCommittedItems = r.items]

\* handleDndFinalize's catch block.
ReorderRolledBack(m, r) == [m EXCEPT !.items = m.lastCommittedItems]

MsReorderOk(r) ==
    /\ r.kind = "reorder"
    /\ msSrv' = IF Range(Ids(r.items)) = Range(Ids(msSrv))
                THEN OrderBy(msSrv, Ids(r.items)) ELSE msSrv
    /\ ms' = ReorderCommitted(ms, r)
    /\ msNet' = msNet \ {r}
    /\ ev' = [Ev("reorderOk", 0) EXCEPT !.ids = Ids(r.items), !.pre = r.pre,
                                        !.seq = r.seq, !.flag = r.clean]
    /\ UNCHANGED <<msSeq, msOps>>
    /\ MsFrame

MsReorderFail(r) ==
    /\ r.kind = "reorder"
    /\ ms' = ReorderRolledBack(ms, r)
    /\ msNet' = Reassigned(msNet \ {r})
    /\ ev' = [Ev("reorderFail", 0) EXCEPT !.ids = Ids(r.items), !.pre = r.pre,
                                          !.seq = r.seq, !.flag = r.clean]
    /\ UNCHANGED <<msSrv, msSeq, msOps>>
    /\ MsFrame

(***************************************************************************)
(* Dashboard views: shared shapes                                          *)
(***************************************************************************)
\* The tenant configurations the server holds in a run (getTenantConfig), by
\* tenant id; an empty sequence stands for an absent field.
NoConfig ==
    [dashboard_type |-> "", available_lines |-> <<>>, available_systems |-> <<>>,
     defect_classes |-> <<>>, line_systems |-> <<>>, factories |-> <<>>,
     finalcheck_line_id |-> ""]

TenantConfig(tenantId) ==
    CASE tenantId = "quality" ->
            [NoConfig EXCEPT !.dashboard_type = "quality",
                             !.available_lines = <<"L1", "L2">>,
                             !.available_systems = <<"uvbc">>]
      [] tenantId = "sidewall" ->
            [NoConfig EXCEPT !.dashboard_type = "sidewall",
                             !.defect_classes = <<"Critical", "Stone">>]
      [] tenantId = "shift" ->
            [NoConfig EXCEPT !.dashboard_type = "shift", !.available_lines = <<"L1">>]
      [] tenantId = "lehr" -> [NoConfig EXCEPT !.dashboard_type = "lehr_inspection"]
      [] tenantId = "scale" ->
            [NoConfig EXCEPT !.dashboard_type = "scale_weight",
                             !.available_lines = <<"S1", "S2">>]
      [] tenantId = "plant" ->
            [NoConfig EXCEPT !.dashboard_type = "quality",
                             !.available_lines = <<"L1", "CX">>,
                             !.available_systems = <<"uvbc", "finalcheck">>,
                             !.line_systems = [line \in {"L1", "CX"} |->
                                                  IF line = "L1" THEN <<"uvbc">>
                                                  ELSE <<"finalcheck">>]]
      [] tenantId = "glass" ->
            [NoConfig EXCEPT !.dashboard_type = "quality",
                             !.available_lines = <<"L1", "L2">>,
                             !.available_systems = <<"uvbc", "washer", "finalcheck">>,
                             !.factories =
                                 <<[lines |-> <<[id |-> "L1", solutions |-> <<"uvbc">>],
                                                [id |-> "L2", solutions |-> <<"washer">>]>>]>>,
                             !.finalcheck_line_id = "FC"]
      [] OTHER -> NoConfig

\* The dashboards getAvailableDashboards returns.
AvailableTenants == <<"quality", "sidewall", "shift">>

\* The range options the root offers, by value; 0 stands for an absent
\* field.
RangeOption(v) ==
    CASE v = "1h" -> [rangeHours |-> 1, days |-> 0]
      [] v = "6h" -> [rangeHours |-> 6, days |-> 0]
      [] v = "12h" -> [rangeHours |-> 12, days |-> 0]
      [] v = "24h" -> [rangeHours |-> 24, days |-> 0]
      [] v = "7d" -> [rangeHours |-> 0, days |-> 7]
      [] v = "14d" -> [rangeHours |-> 0, days |-> 14]
      [] v = "30d" -> [rangeHours |-> 0, days |-> 30]
      [] OTHER -> [rangeHours |-> 0, days |-> 0]

\* The values a user picks in the range select in a run.
RangeInputs == {"1h", "7d"}

\* rangeKey of a dashboard view: `h${rangeHours}` if rangeHours is truthy,
\* else `d${rangeParams?.days ?? 7}`.  '' is the empty sequence.
RangeKey(rangeParams) ==
    IF rangeParams.rangeHours # 0 THEN <<"h", rangeParams.rangeHours>>
    ELSE <<"d", IF rangeParams.days # 0 THEN rangeParams.days ELSE 7>>

\* A panel's data: the load that fetched it and the range it was fetched
\* for.  seq 0 is null.
NoPanelData == [seq |-> 0, key |-> <<>>]

\* The tenant, the line (or other entity) and the system a load asks for.
Arg(tenantId, lineId, system) == [tenantId |-> tenantId, lineId |-> lineId, system |-> system]

\* The options a caller passes on to the load functions it awaits.
NoOpts == [tenantId |-> "", lineId |-> ""]

\* A load in flight: the load function, its arguments as read at the call,
\* the request id it captured (0: the function keeps none), the API calls it
\* still awaits, and the caller's continuation.
NoLoad ==
    [comp |-> "", fn |-> "", seq |-> 0, id |-> 0, key |-> <<>>, arg |-> Arg("", "", ""),
     pending |-> {}, chain |-> "", opts |-> NoOpts]

DashEv(op, r, call) ==
    [op |-> op, comp |-> r.comp, fn |-> r.fn, seq |-> r.seq, id |-> r.id, key |-> r.key,
     arg |-> r.arg, chain |-> r.chain, call |-> call]

UserEv(op) == DashEv(op, NoLoad, "")

RECURSIVE SetAll(_, _, _)
SetAll(c, fields, v) ==
    IF fields = <<>> THEN c
    ELSE SetAll([c EXCEPT ![Head(fields)] = v], Tail(fields), v)

\* A load function up to its await.  P describes it: the fields it keeps
\* its data, loading flag and error in, its request counter ("": none),
\* and whether it clears the data first.
LoadStarted(c, P) ==
    LET c1 == SetAll(SetAll(c, P.loading, TRUE), P.error, Null)
        c2 == IF P.clears THEN SetAll(c1, P.data, NoPanelData) ELSE c1
    IN IF P.counter # "" THEN [c2 EXCEPT ![P.counter] = @ + 1] ELSE c2

\* The load functions fns called one after the other, each up to its await.
RECURSIVE LoadsStarted(_, _, _)
LoadsStarted(c, T, fns) ==
    IF fns = <<>> THEN c
    ELSE LoadsStarted(LoadStarted(c, T[Head(fns)]), T, Tail(fns))

\* How often fns[k] is called in fns[1..k].
Occurrences(fns, k) == Cardinality({j \in 1..k : fns[j] = fns[k]})

\* The requests of those calls.
LoadRequests(comp, c, T, fns, n, key, arg, chain) ==
    {[comp |-> comp, fn |-> fns[k], seq |-> n + k,
      id |-> IF T[fns[k]].counter # "" THEN c[T[fns[k]].counter] + Occurrences(fns, k)
             ELSE 0,
      key |-> key, arg |-> arg, pending |-> T[fns[k]].calls, chain |-> chain,
      opts |-> NoOpts] :
        k \in DOMAIN fns}

\* if (requestId !== xRequestId) return
IsCurrent(c, P, r) == P.counter = "" \/ r.id = c[P.counter]

\* A load function after its await, the finally block included.
LoadSucceeded(c, P, r) ==
    IF IsCurrent(c, P, r)
    THEN SetAll(SetAll(c, P.data, [seq |-> r.seq, key |-> r.key]), P.loading, FALSE)
    ELSE c

LoadFailed(c, P, r) ==
    IF IsCurrent(c, P, r)
    THEN SetAll(SetAll(c, P.error, "detail"), P.loading, FALSE)
    ELSE c

\* The load whose outcome the panels of r.fn show from now on.
Shown(c, P, r) == IF IsCurrent(c, P, r) THEN r.seq ELSE shown[r.fn]

\* Promise.all: one more call answered.
Answered(r, call) == [r EXCEPT !.pending = r.pending \ {call}]

MsIdle ==
    /\ ms = MsInit
    /\ msNet = {}
    /\ msSrv = <<>>
    /\ msSeq = 0
    /\ msOps = 0

(***************************************************************************)
(* Lehr inspection dashboard                                               *)
(***************************************************************************)
LehrViewOptions == {"Overhead", "Exit", "Down/Empty", "System Health"}

LehrLoads ==
    [loadSnapshot |->
        [data |-> <<"snapshot">>, loading |-> <<"snapshotLoading">>,
         error |-> <<"snapshotError">>, counter |-> "", clears |-> FALSE,
         calls |-> {"getLehrSnapshot"}],
     loadOverhead |->
        [data |-> <<"overhead">>, loading |-> <<"overheadLoading">>,
         error |-> <<"overheadError">>, counter |-> "", clears |-> FALSE,
         calls |-> {"getLehrOverhead"}],
     loadExit |->
        [data |-> <<"exitMetrics">>, loading |-> <<"exitLoading">>,
         error |-> <<"exitError">>, counter |-> "", clears |-> FALSE,
         calls |-> {"getLehrExit"}],
     loadDumpGate |->
        [data |-> <<"dumpGate">>, loading |-> <<"dumpGateLoading">>,
         error |-> <<"dumpGateError">>, counter |-> "", clears |-> FALSE,
         calls |-> {"getLehrDumpGate"}],
     loadIncidents |->
        [data |-> <<"incidents">>, loading |-> <<"incidentsLoading">>,
         error |-> <<"incidentsError">>, counter |-> "", clears |-> FALSE,
         calls |-> {"getLehrIncidents"}],
     loadSystemHealth |->
        [data |-> <<"systemHealth">>, loading |-> <<"systemHealthLoading">>,
         error |-> <<"systemHealthError">>, counter |-> "", clears |-> FALSE,
         calls |-> {"getSystemHealth"}]]

LehrInit ==
    [mounted |-> FALSE,
     selectedView |-> "Overhead", initialized |-> FALSE, lastRangeKey |-> <<>>,
     snapshot |-> NoPanelData, snapshotLoading |-> FALSE, snapshotError |-> Null,
     overhead |-> NoPanelData, overheadLoading |-> FALSE, overheadError |-> Null,
     exitMetrics |-> NoPanelData, exitLoading |-> FALSE, exitError |-> Null,
     dumpGate |-> NoPanelData, dumpGateLoading |-> FALSE, dumpGateError |-> Null,
     incidents |-> NoPanelData, incidentsLoading |-> FALSE, incidentsError |-> Null,
     systemHealth |-> NoPanelData, systemHealthLoading |-> FALSE,
     systemHealthError |-> Null]

\* A variant of refreshView that loads nothing for a sub-view other than
\* Overhead once the view is initialized.
LehrRefreshViewOverheadOnly(c) ==
    IF ~c.initialized THEN <<>>
    ELSE IF c.selectedView = "Overhead" THEN <<"loadOverhead">>
    ELSE <<>>

\* The load functions refreshView calls.
LehrRefreshView(c) ==
    IF ~c.initialized THEN <<>>
    ELSE IF c.selectedView \in {"Overhead", "Down/Empty"} THEN <<"loadOverhead">>
    ELSE IF c.selectedView = "Exit" THEN <<"loadExit", "loadDumpGate">>
    ELSE IF c.selectedView = "System Health" THEN <<"loadSystemHealth">>
    ELSE <<"loadOverhead">>

\* A variant of the range block that reloads the snapshot and the
\* incidents and leaves the active sub-view as it is.
LehrRangeBlockWithoutRefresh(c, key) ==
    IF c.initialized /\ key # c.lastRangeKey
    THEN <<"loadSnapshot", "loadIncidents">>
    ELSE <<>>

\* $: if (initialized && rangeKey !== lastRangeKey) { ... }
LehrRangeBlock(c, key) ==
    IF c.initialized /\ key # c.lastRangeKey
    THEN <<"loadSnapshot">> \o LehrRefreshView(c) \o <<"loadIncidents">>
    ELSE <<>>

LehrRangeKeySeen(c, key) ==
    IF c.initialized /\ key # c.lastRangeKey THEN [c EXCEPT !.lastRangeKey = key] ELSE c

LehrKey == RangeKey(RangeOption(props.range))

LehrArg == Arg(props.tenantId, "", "")

\* onMount up to its first await, and the update its assignment to
\* `initialized` schedules: the range block runs for the first time.
LehrMount ==
    /\ ~lehr.mounted
    /\ LET c1 == [lehr EXCEPT !.mounted = TRUE, !.initialized = TRUE]
           first == <<"loadSnapshot">>
           c2 == LoadsStarted(c1, LehrLoads, first)
           block == LehrRangeBlock(c2, LehrKey)
       IN /\ lehr' = LoadsStarted(LehrRangeKeySeen(c2, LehrKey), LehrLoads, block)
          /\ dashNet' = dashNet
                \cup LoadRequests("lehr", c1, LehrLoads, first, dashSeq, LehrKey, LehrArg, "loadSnapshot")
                \cup LoadRequests("lehr", c2, LehrLoads, block, dashSeq + 1, LehrKey, LehrArg, "")
          /\ dashSeq' = dashSeq + 1 + Len(block)
    /\ ev' = UserEv("onMount")
    /\ UNCHANGED <<props, dashOps, shown>>
    /\ LehrFrame

LehrHandleViewChange(view) ==
    /\ lehr.mounted /\ dashOps > 0
    /\ LET c1 == [lehr EXCEPT !.selectedView = view]
           fns == LehrRefreshView(c1)
       IN /\ lehr' = LoadsStarted(c1, LehrLoads, fns)
          /\ dashNet' = dashNet \cup LoadRequests("lehr", c1, LehrLoads, fns, dashSeq, LehrKey, LehrArg, "")
          /\ dashSeq' = dashSeq + Len(fns)
    /\ dashOps' = dashOps - 1
    /\ ev' = UserEv("handleViewChange")
    /\ UNCHANGED <<props, shown>>
    /\ LehrFrame

\* The parent passes another rangeParams: the range block runs.
LehrRangeChanged(v) ==
    /\ lehr.mounted /\ dashOps > 0 /\ v # props.range
    /\ props' = [props EXCEPT !.range = v]
    /\ LET key == RangeKey(RangeOption(v))
           fns == LehrRangeBlock(lehr, key)
           c1 == LehrRangeKeySeen(lehr, key)
       IN /\ lehr' = LoadsStarted(c1, LehrLoads, fns)
          /\ dashNet' = dashNet \cup LoadRequests("lehr", c1, LehrLoads, fns, dashSeq, key, LehrArg, "")
          /\ dashSeq' = dashSeq + Len(fns)
    /\ dashOps' = dashOps - 1
    /\ ev' = UserEv("rangeParams")
    /\ UNCHANGED shown
    /\ LehrFrame

\* onMount's awaits: what it calls once the awaited call has returned,
\* that is once every load of that call has.
LehrAwaited(c, r, rest) ==
    IF r.chain = "" \/ \E q \in rest : q.comp = r.comp /\ q.chain = r.chain
    THEN [fns |-> <<>>, chain |-> ""]
    ELSE IF r.chain = "loadSnapshot"
    THEN [fns |-> LehrRefreshView(c), chain |-> "refreshView"]
    ELSE [fns |-> <<"loadIncidents">>, chain |-> ""]

LehrReturned(c, r) ==
    LET next == LehrAwaited(c, r, dashNet \ {r})
    IN /\ lehr' = LoadsStarted(c, LehrLoads, next.fns)
       /\ dashNet' = (dashNet \ {r})
            \cup LoadRequests("lehr", c, LehrLoads, next.fns, dashSeq, LehrKey, LehrArg, next.chain)
       /\ dashSeq' = dashSeq + Len(next.fns)

LehrLoadOk(r) ==
    /\ r \in dashNet /\ r.comp = "lehr"
    /\ LehrReturned(LoadSucceeded(lehr, LehrLoads[r.fn], r), r)
    /\ shown' = [shown EXCEPT ![r.fn] = Shown(lehr, LehrLoads[r.fn], r)]
    /\ ev' = DashEv("loadOk", r, "")
    /\ UNCHANGED <<props, dashOps>>
    /\ LehrFrame

LehrLoadFail(r) ==
    /\ r \in dashNet /\ r.comp = "lehr"
    /\ LehrReturned(LoadFailed(lehr, LehrLoads[r.fn], r), r)
    /\ shown' = [shown EXCEPT ![r.fn] = Shown(lehr, LehrLoads[r.fn], r)]
    /\ ev' = DashEv("loadFail", r, "")
    /\ UNCHANGED <<props, dashOps>>
    /\ LehrFrame

(***************************************************************************)
(* Scale weight dashboard                                                  *)
(***************************************************************************)
ScaleViewOptions == {"Overview", "Bay 1", "Bay 2", "Camera Health"}

ScaleLoads ==
    [loadSnapshot |->
        [data |-> <<"snapshot">>, loading |-> <<"snapshotLoading">>,
         error |-> <<"snapshotError">>, counter |-> "", clears |-> FALSE,
         calls |-> {"getScaleSnapshot"}],
     loadOverview |->
        [data |-> <<"overview">>, loading |-> <<"overviewLoading">>,
         error |-> <<"overviewError">>, counter |-> "", clears |-> FALSE,
         calls |-> {"getScaleOverview"}],
     loadBayData |->
        [data |-> <<"bayMetrics", "bayTable", "binImages">>,
         loading |-> <<"bayMetricsLoading", "bayTableLoading", "binImagesLoading">>,
         error |-> <<"bayMetricsError", "bayTableError", "binImagesError">>,
         counter |-> "", clears |-> FALSE,
         calls |-> {"getScaleBayMetrics", "getScaleBayTable", "getScaleBinImages"}],
     loadCameraHealth |->
        [data |-> <<"cameraHealth">>, loading |-> <<"cameraLoading">>,
         error |-> <<"cameraError">>, counter |-> "", clears |-> FALSE,
         calls |-> {"getScaleCameraHealth"}]]

\* The panels of the view: the fields each keeps its state in, and the API
\* call that feeds it.
ScalePanels ==
    [getScaleSnapshot |-> <<"snapshot", "snapshotLoading", "snapshotError">>,
     getScaleOverview |-> <<"overview", "overviewLoading", "overviewError">>,
     getScaleBayMetrics |-> <<"bayMetrics", "bayMetricsLoading", "bayMetricsError">>,
     getScaleBayTable |-> <<"bayTable", "bayTableLoading", "bayTableError">>,
     getScaleBinImages |-> <<"binImages", "binImagesLoading", "binImagesError">>,
     getScaleCameraHealth |-> <<"cameraHealth", "cameraLoading", "cameraError">>]

ScaleInit ==
    [mounted |-> FALSE,
     selectedSystem |-> "", selectedView |-> "Overview", weightUnit |-> "Pounds",
     currentTenantId |-> "", initialized |-> FALSE, lastRangeKey |-> <<>>,
     snapshot |-> NoPanelData, snapshotLoading |-> FALSE, snapshotError |-> Null,
     overview |-> NoPanelData, overviewLoading |-> FALSE, overviewError |-> Null,
     bayMetrics |-> NoPanelData, bayMetricsLoading |-> FALSE, bayMetricsError |-> Null,
     bayTable |-> NoPanelData, bayTableLoading |-> FALSE, bayTableError |-> Null,
     binImages |-> NoPanelData, binImagesLoading |-> FALSE, binImagesError |-> Null,
     cameraHealth |-> NoPanelData, cameraLoading |-> FALSE, cameraError |-> Null]

\* $: systemOptions
ScaleSystemOptions == TenantConfig(props.tenantConfig).available_lines

\* A variant of refreshView that does not load the Overview sub-view.
ScaleRefreshViewSkipsOverview(c) ==
    IF ~c.initialized \/ c.selectedSystem = "" THEN <<>>
    ELSE IF c.selectedView = "Overview" THEN <<>>
    ELSE IF c.selectedView \in {"Bay 1", "Bay 2"} THEN <<"loadBayData">>
    ELSE <<"loadCameraHealth">>

\* The load function refreshView calls; each of the three but loadSnapshot
\* returns at once without a selected system.
ScaleRefreshView(c) ==
    IF ~c.initialized \/ c.selectedSystem = "" THEN <<>>
    ELSE IF c.selectedView = "Overview" THEN <<"loadOverview">>
    ELSE IF c.selectedView \in {"Bay 1", "Bay 2"} THEN <<"loadBayData">>
    ELSE <<"loadCameraHealth">>

\* $: if (tenantId && tenantId !== currentTenantId && systemOptions.length > 0)
ScaleTenantBlock(c) ==
    IF props.tenantId # "" /\ props.tenantId # c.currentTenantId /\ Len(ScaleSystemOptions) > 0
    THEN [c EXCEPT !.currentTenantId = props.tenantId,
                   !.selectedSystem = ScaleSystemOptions[1],
                   !.selectedView = "Overview"]
    ELSE c

\* $: if (initialized && rangeKey !== lastRangeKey) { ... }
ScaleRangeBlock(c, key) ==
    IF c.initialized /\ key # c.lastRangeKey
    THEN <<"loadSnapshot">> \o ScaleRefreshView(c)
    ELSE <<>>

ScaleRangeKeySeen(c, key) ==
    IF c.initialized /\ key # c.lastRangeKey THEN [c EXCEPT !.lastRangeKey = key] ELSE c

ScaleKey == RangeKey(RangeOption(props.range))

ScaleArg(c) == Arg(props.tenantId, c.selectedSystem, "")

\* Component creation (the reactive blocks run once), onMount up to its
\* first await, and the update its assignment to `initialized` schedules.
ScaleMount ==
    /\ ~scale.mounted
    /\ LET c0 == ScaleTenantBlock(scale)
           c1 == [c0 EXCEPT !.mounted = TRUE, !.initialized = TRUE,
                            !.selectedSystem =
                                IF c0.selectedSystem = "" /\ Len(ScaleSystemOptions) > 0
                                THEN ScaleSystemOptions[1] ELSE c0.selectedSystem]
           first == <<"loadSnapshot">>
           c2 == LoadsStarted(c1, ScaleLoads, first)
           block == ScaleRangeBlock(c2, ScaleKey)
       IN /\ scale' = LoadsStarted(ScaleRangeKeySeen(c2, ScaleKey), ScaleLoads, block)
          /\ dashNet' = dashNet
                \cup LoadRequests("scale", c1, ScaleLoads, first, dashSeq, ScaleKey,
                                  ScaleArg(c1), "loadSnapshot")
                \cup LoadRequests("scale", c2, ScaleLoads, block, dashSeq + 1, ScaleKey,
                                  ScaleArg(c1), "")
          /\ dashSeq' = dashSeq + 1 + Len(block)
    /\ ev' = UserEv("onMount")
    /\ UNCHANGED <<props, dashOps, shown>>
    /\ ScaleFrame

\* A handler that changes a selection and calls refreshView.
ScaleRefreshed(c1, op) ==
    /\ scale' = LoadsStarted(c1, ScaleLoads, ScaleRefreshView(c1))
    /\ dashNet' = dashNet
          \cup LoadRequests("scale", c1, ScaleLoads, ScaleRefreshView(c1), dashSeq, ScaleKey,
                            ScaleArg(c1), "")
    /\ dashSeq' = dashSeq + Len(ScaleRefreshView(c1))
    /\ dashOps' = dashOps - 1
    /\ ev' = UserEv(op)
    /\ UNCHANGED <<props, shown>>
    /\ ScaleFrame

ScaleHandleSystemChange(systemId) ==
    /\ scale.mounted /\ dashOps > 0
    /\ systemId \in Range(ScaleSystemOptions)
    /\ ScaleRefreshed([scale EXCEPT !.selectedSystem = systemId], "handleSystemChange")

ScaleHandleViewChange(view) ==
    /\ scale.mounted /\ dashOps > 0
    /\ ScaleRefreshed([scale EXCEPT !.selectedView = view], "handleViewChange")

ScaleHandleUnitChange(unit) ==
    /\ scale.mounted /\ dashOps > 0 /\ unit # scale.weightUnit
    /\ scale' = [scale EXCEPT !.weightUnit = unit]
    /\ dashOps' = dashOps - 1
    /\ ev' = UserEv("handleUnitChange")
    /\ UNCHANGED <<props, dashNet, dashSeq, shown>>
    /\ ScaleFrame

\* The parent passes another rangeParams: the range block runs.
ScaleRangeChanged(v) ==
    /\ scale.mounted /\ dashOps > 0 /\ v # props.range
    /\ props' = [props EXCEPT !.range = v]
    /\ LET key == RangeKey(RangeOption(v))
           fns == ScaleRangeBlock(scale, key)
           c1 == ScaleRangeKeySeen(scale, key)
       IN /\ scale' = LoadsStarted(c1, ScaleLoads, fns)
          /\ dashNet' = dashNet
                \cup LoadRequests("scale", c1, ScaleLoads, fns, dashSeq, key, ScaleArg(c1), "")
          /\ dashSeq' = dashSeq + Len(fns)
    /\ dashOps' = dashOps - 1
    /\ ev' = UserEv("rangeParams")
    /\ UNCHANGED shown
    /\ ScaleFrame

\* onMount after `await loadSnapshot()`: refreshView.
ScaleAwaited(c, r) ==
    IF r.chain = "loadSnapshot" THEN ScaleRefreshView(c) ELSE <<>>

ScaleReturned(c, r) ==
    /\ scale' = LoadsStarted(c, ScaleLoads, ScaleAwaited(c, r))
    /\ dashNet' = (dashNet \ {r})
          \cup LoadRequests("scale", c, ScaleLoads, ScaleAwaited(c, r), dashSeq, ScaleKey,
                            ScaleArg(c), "")
    /\ dashSeq' = dashSeq + Len(ScaleAwaited(c, r))

\* One API call of a load answers.  The load function goes on once
\* Promise.all has every answer.
ScaleCallOk(r, call) ==
    /\ r \in dashNet /\ r.comp = "scale" /\ call \in r.pending
    /\ IF r.pending = {call}
       THEN /\ ScaleReturned(LoadSucceeded(scale, ScaleLoads[r.fn], r), r)
            /\ shown' = [shown EXCEPT ![r.fn] = Shown(scale, ScaleLoads[r.fn], r)]
       ELSE /\ dashNet' = (dashNet \ {r}) \cup {Answered(r, call)}
            /\ UNCHANGED <<scale, dashSeq, shown>>
    /\ ev' = DashEv("callOk", r, call)
    /\ UNCHANGED <<props, dashOps>>
    /\ ScaleFrame

\* One API call of a load fails: Promise.all rejects at once, and the
\* answers still to come are dropped.
ScaleCallFail(r, call) ==
    /\ r \in dashNet /\ r.comp = "scale" /\ call \in r.pending
    /\ ScaleReturned(LoadFailed(scale, ScaleLoads[r.fn], r), r)
    /\ shown' = [shown EXCEPT ![r.fn] = Shown(scale, ScaleLoads[r.fn], r)]
    /\ ev' = DashEv("callFail", r, call)
    /\ UNCHANGED <<props, dashOps>>
    /\ ScaleFrame

(***************************************************************************)
(* Sidewall dashboard                                                      *)
(***************************************************************************)
DefaultDefectClasses == <<"critical", "blister", "stone", "cosmetic">>

\* String.prototype.toLowerCase, on the defect classes and the system labels
\* of the sample configs.
ToLowerCase(value) ==
    CASE value = "Critical" -> "critical"
      [] value = "Stone" -> "stone"
      [] value = "UVBC" -> "uvbc"
      [] value = "WASHER" -> "washer"
      [] value = "FinalCheck" -> "finalcheck"
      [] OTHER -> value

\* formatLabel: underscores to spaces, each word capitalised.
FormatLabel(value) ==
    CASE value = "critical" -> "Critical"
      [] value = "blister" -> "Blister"
      [] value = "stone" -> "Stone"
      [] value = "cosmetic" -> "Cosmetic"
      [] OTHER -> value

\* $: defectClasses
DefectClasses(p) ==
    LET configured == TenantConfig(p.tenantConfig).defect_classes
    IN IF Len(configured) > 0
       THEN [k \in DOMAIN configured |-> ToLowerCase(configured[k])]
       ELSE DefaultDefectClasses

\* $: viewOptions
SwViewOptions(p) ==
    <<"Inspections">> \o [k \in DOMAIN DefectClasses(p) |-> FormatLabel(DefectClasses(p)[k])]
        \o <<"System Health">>

\* $: defectClassByLabel[selectedView] ("" for undefined)
DefectClassByLabel(p, label) ==
    IF \E k \in DOMAIN DefectClasses(p) : FormatLabel(DefectClasses(p)[k]) = label
    THEN CHOOSE cl \in Range(DefectClasses(p)) : FormatLabel(cl) = label
    ELSE ""

\* The request of getSidewallIncidents for one defect class.
SidewallIncidentsCall(defectClass) ==
    CASE defectClass = "critical" -> "getSidewallIncidents(critical)"
      [] defectClass = "blister" -> "getSidewallIncidents(blister)"
      [] defectClass = "stone" -> "getSidewallIncidents(stone)"
      [] defectClass = "cosmetic" -> "getSidewallIncidents(cosmetic)"
      [] OTHER -> "getSidewallIncidents"

SwLoads(p) ==
    [loadSnapshot |->
        [data |-> <<"snapshot">>, loading |-> <<"snapshotLoading">>,
         error |-> <<"snapshotError">>, counter |-> "snapshotRequestId",
         clears |-> FALSE, calls |-> {"getSidewallSnapshot"}],
     loadInspections |->
        [data |-> <<"inspections">>, loading |-> <<"inspectionsLoading">>,
         error |-> <<"inspectionsError">>, counter |-> "inspectionsRequestId",
         clears |-> FALSE, calls |-> {"getSidewallInspections"}],
     loadDefect |->
        [data |-> <<"defectDetail">>, loading |-> <<"defectLoading">>,
         error |-> <<"defectError">>, counter |-> "defectRequestId",
         clears |-> FALSE, calls |-> {"getSidewallDefect"}],
     loadSystemHealth |->
        [data |-> <<"systemHealth">>, loading |-> <<"systemHealthLoading">>,
         error |-> <<"systemHealthError">>, counter |-> "systemHealthRequestId",
         clears |-> FALSE, calls |-> {"getSidewallHealth"}],
     loadIncidents |->
        [data |-> <<"incidentsByClass">>, loading |-> <<"incidentsLoading">>,
         error |-> <<"incidentsError">>, counter |-> "incidentsRequestId",
         clears |-> FALSE,
         calls |-> {SidewallIncidentsCall(cl) : cl \in Range(DefectClasses(p))}]]

SwInit ==
    [mounted |-> FALSE,
     selectedView |-> "Inspections", currentTenantId |-> "", lastRangeKey |-> <<>>,
     initialized |-> FALSE,
     snapshot |-> NoPanelData, snapshotLoading |-> FALSE, snapshotError |-> Null,
     snapshotRequestId |-> 0,
     inspections |-> NoPanelData, inspectionsLoading |-> FALSE, inspectionsError |-> Null,
     inspectionsRequestId |-> 0,
     defectDetail |-> NoPanelData, defectLoading |-> FALSE, defectError |-> Null,
     defectRequestId |-> 0,
     systemHealth |-> NoPanelData, systemHealthLoading |-> FALSE,
     systemHealthError |-> Null, systemHealthRequestId |-> 0,
     incidentsByClass |-> NoPanelData, incidentsLoading |-> FALSE, incidentsError |-> Null,
     incidentsRequestId |-> 0]

\* The load function refreshView calls.
SwRefreshView(c, p) ==
    IF ~c.initialized \/ p.tenantId = "" THEN <<>>
    ELSE IF c.selectedView = "Inspections" THEN <<"loadInspections">>
    ELSE IF c.selectedView = "System Health" THEN <<"loadSystemHealth">>
    ELSE IF DefectClassByLabel(p, c.selectedView) # "" THEN <<"loadDefect">>
    ELSE <<>>

\* loadIncidents returns at once without a tenant or a defect class.
SwLoadIncidents(p) ==
    IF p.tenantId = "" \/ Len(DefectClasses(p)) = 0 THEN <<>> ELSE <<"loadIncidents">>

\* loadSnapshot(); refreshView(); loadIncidents();
SwLoadAll(c, p) ==
    (IF p.tenantId = "" THEN <<>> ELSE <<"loadSnapshot">>)
        \o SwRefreshView(c, p) \o SwLoadIncidents(p)

\* $: if (!viewOptions.includes(selectedView)) selectedView = 'Inspections'
SwViewBlock(c, p) ==
    IF c.selectedView \notin Range(SwViewOptions(p))
    THEN [c EXCEPT !.selectedView = "Inspections"] ELSE c

\* $: if (tenantId && tenantId !== currentTenantId) { ... }
SwTenantChanged(c, p) == p.tenantId # "" /\ p.tenantId # c.currentTenantId

SwTenantSeen(c, p) ==
    IF SwTenantChanged(c, p)
    THEN [c EXCEPT !.currentTenantId = p.tenantId, !.selectedView = "Inspections"]
    ELSE c

\* $: if (initialized && rangeKey !== lastRangeKey) { ... }
SwRangeChanged(c, p) == c.initialized /\ RangeKey(RangeOption(p.range)) # c.lastRangeKey

SwRangeSeen(c, p) ==
    IF SwRangeChanged(c, p)
    THEN [c EXCEPT !.lastRangeKey = RangeKey(RangeOption(p.range))] ELSE c

SwArg(p) == Arg(p.tenantId, "", "")

\* The loads fns called by a view under props p, the n loads issued before
\* them: the view after, the requests, and the number of loads issued.
ViewLoads(comp, c, T, fns, n, p, chain) ==
    [c |-> LoadsStarted(c, T, fns),
     reqs |-> LoadRequests(comp, c, T, fns, n, RangeKey(RangeOption(p.range)),
                           Arg(p.tenantId, "", ""), chain),
     n |-> n + Len(fns)]

NoLoads(c, n) == [c |-> c, reqs |-> {}, n |-> n]

\* One step after another.
Then(first, second) ==
    [c |-> second.c, reqs |-> first.reqs \cup second.reqs, n |-> second.n]

\* The reactive blocks of the view, run for the props p.
\* The tenant block for a view c, c1 being the view once the block has
\* noted the tenant; the range block likewise, after the tenant block.
SwTenantBlock(c, c1, p, n) ==
    ViewLoads("sidewall", c1, SwLoads(p),
              IF SwTenantChanged(c, p) /\ c.initialized THEN SwLoadAll(c1, p) ELSE <<>>,
              n, p, "")

SwRangeBlock(c, c2, p, n) ==
    ViewLoads("sidewall", c2, SwLoads(p),
              IF SwRangeChanged(c, p) THEN SwLoadAll(c2, p) ELSE <<>>,
              n, p, "")

SwRangeBlockAfter(tenant, p) ==
    Then(tenant, SwRangeBlock(tenant.c, SwRangeSeen(tenant.c, p), p, tenant.n))

SwReactive(c, p, n) ==
    SwRangeBlockAfter(SwTenantBlock(c, SwTenantSeen(SwViewBlock(c, p), p), p, n), p)

\* The view is created (its reactive blocks run once) and mounted: onMount
\* up to its first await, and the update its assignment to `initialized`
\* schedules.
SwOnMount(c, p, n) ==
    ViewLoads("sidewall", [c EXCEPT !.mounted = TRUE, !.initialized = TRUE], SwLoads(p),
              IF p.tenantId = "" THEN <<>> ELSE <<"loadSnapshot">>,
              n, p, "loadSnapshot")

SwMounted(first, p) == Then(first, SwReactive(first.c, p, first.n))

SwCreate(p, n) == SwMounted(SwOnMount(SwReactive(SwInit, p, n).c, p, n), p)

\* onMount's awaits: what it calls once the awaited call has returned.
SwAwaited(c, p, r) ==
    IF r.chain = "loadSnapshot" /\ SwRefreshView(c, p) # <<>>
    THEN [fns |-> SwRefreshView(c, p), chain |-> "refreshView"]
    ELSE IF r.chain \in {"loadSnapshot", "refreshView"}
    THEN [fns |-> SwLoadIncidents(p), chain |-> ""]
    ELSE [fns |-> <<>>, chain |-> ""]

SwReturned(c, r) ==
    LET next == ViewLoads("sidewall", c, SwLoads(props), SwAwaited(c, props, r).fns,
                          dashSeq, props, SwAwaited(c, props, r).chain)
    IN /\ sw' = next.c
       /\ dashNet' = (dashNet \ {r}) \cup next.reqs
       /\ dashSeq' = next.n

SwHandleViewChange(view) ==
    /\ sw.mounted /\ dashOps > 0
    /\ view \in Range(SwViewOptions(props))
    /\ LET c1 == [sw EXCEPT !.selectedView = view]
           next == ViewLoads("sidewall", c1, SwLoads(props), SwRefreshView(c1, props),
                             dashSeq, props, "")
       IN /\ sw' = next.c
          /\ dashNet' = dashNet \cup next.reqs
          /\ dashSeq' = next.n
    /\ dashOps' = dashOps - 1
    /\ ev' = UserEv("sidewall.handleViewChange")
    /\ UNCHANGED <<root, shift, props>>
    /\ RootFrame

\* One API call of a load answers; the load function goes on once it has
\* every answer it awaits.
SwCallOk(r, call) ==
    /\ r \in dashNet /\ r.comp = "sidewall" /\ call \in r.pending
    /\ IF r.pending = {call}
       THEN SwReturned(LoadSucceeded(sw, SwLoads(props)[r.fn], r), r)
       ELSE /\ dashNet' = (dashNet \ {r}) \cup {Answered(r, call)}
            /\ UNCHANGED <<sw, dashSeq>>
    /\ ev' = DashEv(IF r.pending = {call} THEN "loadOk" ELSE "callOk", r, call)
    /\ UNCHANGED <<root, shift, props, dashOps>>
    /\ RootFrame

SwCallFail(r, call) ==
    /\ dashOps > 0
    /\ r \in dashNet /\ r.comp = "sidewall" /\ call \in r.pending
    /\ SwReturned(LoadFailed(sw, SwLoads(props)[r.fn], r), r)
    /\ ev' = DashEv("loadFail", r, call)
    /\ dashOps' = dashOps - 1
    /\ UNCHANGED <<root, shift, props>>
    /\ RootFrame

(***************************************************************************)
(* Shift dashboard                                                         *)
(***************************************************************************)
ShiftLoads ==
    [loadSnapshot |->
        [data |-> <<"snapshotTotals">>, loading |-> <<"snapshotLoading">>,
         error |-> <<"snapshotError">>, counter |-> "snapshotRequestId",
         clears |-> FALSE, calls |-> {"getShiftSnapshot"}],
     loadLineData |->
        [data |-> <<"throughput", "downTotals", "timeSeries">>,
         loading |-> <<"lineLoading">>, error |-> <<"lineError">>,
         counter |-> "lineRequestId", clears |-> TRUE,
         calls |-> {"getShiftThroughput", "getShiftDown", "getShiftTimeSeries"}],
     loadIncidents |->
        [data |-> <<"incidents">>, loading |-> <<"incidentsLoading">>,
         error |-> <<"incidentsError">>, counter |-> "incidentsRequestId",
         clears |-> TRUE, calls |-> {"getShiftIncidents"}]]

ShiftInit ==
    [currentTenantId |-> "", selectedLine |-> "", includeBothShifts |-> FALSE,
     rangeSelection |-> "shift",
     snapshotTotals |-> NoPanelData, snapshotLoading |-> FALSE, snapshotError |-> Null,
     snapshotRequestId |-> 0,
     throughput |-> NoPanelData, downTotals |-> NoPanelData, timeSeries |-> NoPanelData,
     lineLoading |-> FALSE, lineError |-> Null, lineRequestId |-> 0,
     incidents |-> NoPanelData, incidentsLoading |-> FALSE, incidentsError |-> Null,
     incidentsRequestId |-> 0]

\* loadSnapshot(); loadLineData(); loadIncidents(); the latter two return
\* at once without a selected line.
ShiftLoadAll(c, p) ==
    IF p.tenantId = "" THEN <<>>
    ELSE IF c.selectedLine = "" THEN <<"loadSnapshot">>
    ELSE <<"loadSnapshot", "loadLineData", "loadIncidents">>

\* $: if (tenantConfig && tenantId && tenantId !== currentTenantId) { ... }
ShiftTenantChanged(c, p) ==
    p.tenantConfig # "" /\ p.tenantId # "" /\ p.tenantId # c.currentTenantId

ShiftTenantSeen(c, p) ==
    LET lineOptions == TenantConfig(p.tenantConfig).available_lines
    IN [c EXCEPT !.currentTenantId = p.tenantId,
                 !.selectedLine = IF Len(lineOptions) > 0 THEN lineOptions[1] ELSE "",
                 !.includeBothShifts = FALSE,
                 !.rangeSelection = "shift"]

\* The reactive blocks of the view, run for the props p: at its creation,
\* and when the parent passes other props.
ShiftReactive(c, p, n) ==
    IF ShiftTenantChanged(c, p)
    THEN LET c1 == ShiftTenantSeen(c, p)
         IN [c |-> LoadsStarted(c1, ShiftLoads, ShiftLoadAll(c1, p)),
             reqs |-> LoadRequests("shift", c1, ShiftLoads, ShiftLoadAll(c1, p), n,
                                   <<"shift">>, Arg(p.tenantId, c1.selectedLine, ""), ""),
             n |-> n + Len(ShiftLoadAll(c1, p))]
    ELSE NoLoads(c, n)

ShiftCallOk(r, call) ==
    /\ r \in dashNet /\ r.comp = "shift" /\ call \in r.pending
    /\ IF r.pending = {call}
       THEN /\ shift' = LoadSucceeded(shift, ShiftLoads[r.fn], r)
            /\ dashNet' = dashNet \ {r}
       ELSE /\ dashNet' = (dashNet \ {r}) \cup {Answered(r, call)}
            /\ UNCHANGED shift
    /\ ev' = DashEv(IF r.pending = {call} THEN "loadOk" ELSE "callOk", r, call)
    /\ UNCHANGED <<root, sw, props, dashSeq, dashOps>>
    /\ RootFrame

ShiftCallFail(r, call) ==
    /\ dashOps > 0
    /\ r \in dashNet /\ r.comp = "shift" /\ call \in r.pending
    /\ shift' = LoadFailed(shift, ShiftLoads[r.fn], r)
    /\ dashNet' = dashNet \ {r}
    /\ ev' = DashEv("loadFail", r, call)
    /\ dashOps' = dashOps - 1
    /\ UNCHANGED <<root, sw, props, dashSeq>>
    /\ RootFrame

(***************************************************************************)
(* Tenant dashboard root                                                   *)
(***************************************************************************)
DefaultRangeOptions == <<"1h", "6h", "12h", "24h", "7d", "14d", "30d">>
SidewallRangeOptions == <<"1h", "12h", "24h", "7d">>

\* The dashboard types loadDashboard returns early for.
EarlyReturnTypes == {"shift", "case_inspection", "sidewall", "scale_weight"}

\* The dashboard types the template renders a view of their own for.
DedicatedTypes == EarlyReturnTypes \cup {"lehr_inspection"}

RootLoads ==
    [loadOverview |->
        [data |-> <<"overviewMetrics">>, loading |-> <<"overviewLoading">>,
         error |-> <<"overviewError">>, counter |-> "", clears |-> FALSE,
         calls |-> {"getOverview"}],
     loadLineData |->
        [data |-> <<"lineMetrics", "timeSeriesData">>, loading |-> <<"lineLoading">>,
         error |-> <<"lineError">>, counter |-> "lineRequestId", clears |-> TRUE,
         calls |-> {"getLineMetrics", "getTimeSeries"}],
     loadOrientationData |->
        [data |-> <<"orientationData">>, loading |-> <<"orientationLoading">>,
         error |-> <<"orientationError">>, counter |-> "", clears |-> TRUE,
         calls |-> {"getOrientation"}],
     loadIncidentsData |->
        [data |-> <<"incidentsData">>, loading |-> <<"incidentsLoading">>,
         error |-> <<"incidentsError">>, counter |-> "", clears |-> TRUE,
         calls |-> {"getIncidents"}],
     loadCoatingData |->
        [data |-> <<"intensityData", "partialRingsData">>, loading |-> <<"coatingLoading">>,
         error |-> <<"coatingError">>, counter |-> "", clears |-> FALSE,
         calls |-> {"getUVBCIntensity", "getPartialRings"}],
     loadSystemHealthData |->
        [data |-> <<"systemHealthData">>, loading |-> <<"systemHealthLoading">>,
         error |-> <<"systemHealthError">>, counter |-> "", clears |-> FALSE,
         calls |-> {"getSystemHealth"}]]

\* The component's variables, the stores it selects in, and the reactive
\* values its functions read (lineOptions, activeRangeOptions,
\* currentRangeDays), which are as of the last update of the component.
RootInit ==
    [mounted |-> FALSE,
     loading |-> TRUE, error |-> Null, dashboardView |-> "Dashboard",
     availableTenants |-> <<>>, tenantConfig |-> "",
     selectedTenantId |-> "", selectedLine |-> "", selectedSystem |-> "uvbc",
     selectedSecondaryOption |-> "metrics",
     rangeSelection |-> "7d", rangeTenantId |-> "",
     lineOptions |-> <<>>, activeRangeOptions |-> DefaultRangeOptions,
     currentRangeDays |-> 7,
     overviewMetrics |-> NoPanelData, overviewLoading |-> FALSE, overviewError |-> Null,
     lineMetrics |-> NoPanelData, timeSeriesData |-> NoPanelData,
     lineLoading |-> FALSE, lineError |-> Null, lineRequestId |-> 0,
     orientationData |-> NoPanelData, orientationLoading |-> FALSE,
     orientationError |-> Null,
     incidentsData |-> NoPanelData, incidentsLoading |-> FALSE, incidentsError |-> Null,
     intensityData |-> NoPanelData, partialRingsData |-> NoPanelData,
     coatingLoading |-> FALSE, coatingError |-> Null,
     systemHealthData |-> NoPanelData, systemHealthLoading |-> FALSE,
     systemHealthError |-> Null]

DashboardType(c) == TenantConfig(c.tenantConfig).dashboard_type

GetRangeParams(c, selection) ==
    IF selection \in Range(c.activeRangeOptions) THEN RangeOption(selection)
    ELSE RangeOption("")

\* The range a load function asks for: rangeHours, and
\* `selection.days ?? currentRangeDays`.
RootRange(c) ==
    [rangeHours |-> GetRangeParams(c, c.rangeSelection).rangeHours,
     days |-> IF GetRangeParams(c, c.rangeSelection).days # 0
              THEN GetRangeParams(c, c.rangeSelection).days ELSE c.currentRangeDays]

RootKey(c) == RangeKey(RootRange(c))

\* The tenant, line and system a load function asks for, under the options
\* it is called with.
RootArg(c, fn, options) ==
    LET tenantId == IF options.tenantId # "" THEN options.tenantId ELSE c.selectedTenantId
        lineId == IF options.lineId # "" THEN options.lineId ELSE c.selectedLine
    IN CASE fn = "loadOverview" -> Arg(tenantId, "", "")
         [] fn = "loadSystemHealthData" -> Arg(tenantId, "", "")
         [] fn = "loadCoatingData" -> Arg(tenantId, lineId, "")
         [] OTHER -> Arg(tenantId, lineId, c.selectedSystem)

\* Whether the load function gets as far as its request.
RootLoadRuns(c, fn, options) ==
    CASE fn = "loadOverview" -> TRUE
      [] fn = "loadSystemHealthData" -> RootArg(c, fn, options).tenantId # ""
      [] fn = "loadCoatingData" ->
            /\ RootArg(c, fn, options).tenantId # ""
            /\ RootArg(c, fn, options).lineId # ""
            /\ c.selectedSystem = "uvbc"
      [] OTHER ->
            /\ RootArg(c, fn, options).tenantId # ""
            /\ RootArg(c, fn, options).lineId # ""

\* What it does when it returns early.
RootLoadSkipped(c, fn) ==
    CASE fn = "loadCoatingData" ->
            [c EXCEPT !.intensityData = NoPanelData, !.partialRingsData = NoPanelData]
      [] fn = "loadSystemHealthData" -> [c EXCEPT !.systemHealthData = NoPanelData]
      [] OTHER -> c

\* One load function called, up to its await.  chain names the caller that
\* awaits it, and captured the options that caller passes on.
RootLoad(c, fn, options, n, chain, captured) ==
    IF RootLoadRuns(c, fn, options)
    THEN [c |-> LoadStarted(c, RootLoads[fn]),
          reqs |-> {[q EXCEPT !.opts = captured] :
                      q \in LoadRequests("root", c, RootLoads, <<fn>>, n, RootKey(c),
                                         RootArg(c, fn, options), chain)},
          n |-> n + 1]
    ELSE NoLoads(RootLoadSkipped(c, fn), n)

\* Load functions called one after the other without awaiting them.
RECURSIVE RootLoadEach(_, _, _, _)
RootLoadEach(c, fns, options, n) ==
    IF fns = <<>> THEN NoLoads(c, n)
    ELSE LET first == RootLoad(c, Head(fns), options, n, "", NoOpts)
         IN Then(first, RootLoadEach(first.c, Tail(fns), options, first.n))

\* Load functions awaited one after the other: up to the first await that
\* suspends.
RECURSIVE RootLoadAwait(_, _, _, _, _)
RootLoadAwait(c, fns, options, n, chain) ==
    IF fns = <<>> THEN NoLoads(c, n)
    ELSE LET first == RootLoad(c, Head(fns), options, n, chain, options)
         IN IF first.reqs # {} THEN first
            ELSE RootLoadAwait(first.c, Tail(fns), options, n, chain)

\* The reactive statements of the component, run when it updates.
RootReactive(c) ==
    LET options == IF DashboardType(c) = "sidewall" THEN SidewallRangeOptions
                   ELSE DefaultRangeOptions
        rangeSelection == IF c.rangeSelection \in Range(options) THEN c.rangeSelection
                          ELSE options[1]
        lineOptions == TenantConfig(c.tenantConfig).available_lines
        systems == TenantConfig(c.tenantConfig).available_systems
    IN [c EXCEPT
          !.activeRangeOptions = options,
          !.rangeSelection = rangeSelection,
          !.currentRangeDays = IF RangeOption(rangeSelection).days # 0
                               THEN RangeOption(rangeSelection).days ELSE 1,
          !.lineOptions = lineOptions,
          !.selectedTenantId =
              IF Len(c.availableTenants) > 0 /\ @ \notin Range(c.availableTenants)
              THEN c.availableTenants[1] ELSE @,
          !.selectedLine =
              IF /\ DashboardType(c) \notin DedicatedTypes
                 /\ Len(lineOptions) > 0 /\ @ # "" /\ @ \notin Range(lineOptions)
              THEN lineOptions[1] ELSE @,
          !.selectedSystem =
              IF Len(systems) > 0 /\ @ \notin Range(systems) THEN systems[1] ELSE @]

\* What the template renders below the header.
Rendered(c) ==
    IF c.loading THEN "loading"
    ELSE IF c.error # Null THEN "error"
    ELSE IF c.dashboardView = "Insights" THEN "insights"
    ELSE IF DashboardType(c) \in DedicatedTypes THEN DashboardType(c)
    ELSE "general"

\* The props the template passes to the dashboard view it renders.
ViewProps(c) ==
    [tenantId |-> c.selectedTenantId, tenantConfig |-> c.tenantConfig,
     range |-> IF c.rangeSelection \in Range(c.activeRangeOptions) THEN c.rangeSelection
               ELSE ""]

\* A handler or continuation of the root has run up to its return or
\* await, leaving `out`; the component updates.  The view of a dedicated
\* dashboard type is created when the template starts to render it, is
\* passed the new props while it stays, and is destroyed when the template
\* renders something else; the answers to a destroyed view's loads change
\* nothing on the page.
SidewallRendered(c1, stays, n) ==
    IF Rendered(c1) # "sidewall" THEN NoLoads(SwInit, n)
    ELSE IF stays THEN SwReactive(sw, ViewProps(c1), n)
    ELSE SwCreate(ViewProps(c1), n)

ShiftRendered(c1, stays, n) ==
    IF Rendered(c1) # "shift" THEN NoLoads(ShiftInit, n)
    ELSE ShiftReactive(IF stays THEN shift ELSE ShiftInit, ViewProps(c1), n)

ViewsRendered(c1, stays, sidewall, shiftView, reqs, rest) ==
    /\ root' = c1
    /\ props' = ViewProps(c1)
    /\ sw' = sidewall.c
    /\ shift' = shiftView.c
    /\ dashNet' = (IF stays THEN rest ELSE {q \in rest : q.comp = "root"})
                     \cup reqs \cup sidewall.reqs \cup shiftView.reqs
    /\ dashSeq' = shiftView.n

ShiftRenderedAfter(c1, stays, sidewall, reqs, rest) ==
    ViewsRendered(c1, stays, sidewall, ShiftRendered(c1, stays, sidewall.n), reqs, rest)

TemplateRendered(c1, stays, out, rest) ==
    ShiftRenderedAfter(c1, stays, SidewallRendered(c1, stays, out.n), out.reqs, rest)

RootReacted(c1, out, rest) ==
    TemplateRendered(c1, Rendered(c1) = Rendered(root), out, rest)

RootUpdated(out, rest) == RootReacted(RootReactive(out.c), out, rest)

\* loadDashboard up to its first await.
LoadDashboard(c, n) ==
    [c |-> [c EXCEPT !.loading = TRUE, !.error = Null, !.dashboardView = "Dashboard"],
     reqs |-> {[NoLoad EXCEPT !.comp = "root", !.fn = "loadDashboard", !.seq = n + 1,
                              !.pending = {"getAvailableDashboards"}]},
     n |-> n + 1]

RootMount ==
    /\ ~root.mounted
    /\ RootUpdated(LoadDashboard([root EXCEPT !.mounted = TRUE], dashSeq), dashNet)
    /\ ev' = UserEv("onMount")
    /\ UNCHANGED dashOps
    /\ RootFrame

\* loadDashboard after `await getAvailableDashboards(token)`.
TenantsLoaded(c, n) ==
    LET tenantId == IF c.selectedTenantId = "" \/ c.selectedTenantId \notin Range(AvailableTenants)
                    THEN AvailableTenants[1] ELSE c.selectedTenantId
    IN [c |-> [c EXCEPT !.availableTenants = AvailableTenants,
                        !.selectedTenantId = tenantId],
        reqs |-> {[NoLoad EXCEPT !.comp = "root", !.fn = "loadDashboard", !.seq = n + 1,
                                 !.arg = Arg(tenantId, "", ""),
                                 !.pending = {"getTenantConfig"}]},
        n |-> n + 1]

\* The catch and finally blocks of loadDashboard.
DashboardFailed(c) == [c EXCEPT !.error = "detail", !.loading = FALSE]

DashboardLoaded(c) == [c EXCEPT !.loading = FALSE]

\* The range selection a tenant starts with.
DefaultRange(type) ==
    IF type = "sidewall" THEN "12h"
    ELSE IF type \in {"lehr_inspection", "scale_weight"} THEN "6h"
    ELSE "7d"

\* What loadDashboard awaits after an awaited load function has returned.
DashboardAwaits(c, fn) ==
    IF fn = "loadOverview"
    THEN IF c.selectedLine # "" THEN <<"loadLineData", "loadIncidentsData">> ELSE <<>>
    ELSE IF fn = "loadLineData" THEN <<"loadIncidentsData">>
    ELSE <<>>

\* loadDashboard from an await on: the load functions left to await, and
\* the finally block once there is none.
DashboardContinued(c, fns, options, n) ==
    LET next == RootLoadAwait(c, fns, options, n, "loadDashboard")
    IN IF next.reqs # {} THEN next ELSE NoLoads(DashboardLoaded(next.c), n)

\* loadDashboard after `await getTenantConfig(token, tenantId)`.
ConfigLoaded(c, tenantId, n) ==
    LET type == TenantConfig(tenantId).dashboard_type
        systems == TenantConfig(tenantId).available_systems
        c1 == [c EXCEPT !.tenantConfig = tenantId,
                        !.rangeSelection = IF tenantId # c.rangeTenantId
                                           THEN DefaultRange(type) ELSE @,
                        !.rangeTenantId = tenantId]
        c2 == [c1 EXCEPT !.selectedLine = IF @ = "" /\ Len(c.lineOptions) > 0
                                          THEN c.lineOptions[1] ELSE @,
                         !.selectedSystem = IF @ \in Range(systems) THEN @
                                            ELSE IF Len(systems) > 0 THEN systems[1]
                                            ELSE "uvbc"]
    IN IF type \in EarlyReturnTypes
       THEN NoLoads(DashboardLoaded([c1 EXCEPT !.selectedLine = "",
                                               !.selectedSecondaryOption = "metrics"]), n)
       ELSE LET overview == RootLoad(c2, "loadOverview", NoOpts, n, "loadDashboard",
                                     [NoOpts EXCEPT !.tenantId = tenantId])
            IN overview

RootTenantsOk(r) ==
    /\ r \in dashNet /\ r.comp = "root" /\ r.pending = {"getAvailableDashboards"}
    /\ RootUpdated(TenantsLoaded(root, dashSeq), dashNet \ {r})
    /\ ev' = DashEv("tenantsOk", r, "getAvailableDashboards")
    /\ UNCHANGED dashOps
    /\ RootFrame

RootConfigOk(r) ==
    /\ r \in dashNet /\ r.comp = "root" /\ r.pending = {"getTenantConfig"}
    /\ RootUpdated(ConfigLoaded(root, r.arg.tenantId, dashSeq), dashNet \ {r})
    /\ ev' = DashEv("configOk", r, "getTenantConfig")
    /\ UNCHANGED dashOps
    /\ RootFrame

RootDashboardFail(r) ==
    /\ dashOps > 0
    /\ r \in dashNet /\ r.comp = "root" /\ r.fn = "loadDashboard"
    /\ RootUpdated(NoLoads(DashboardFailed(root), dashSeq), dashNet \ {r})
    /\ ev' = DashEv("dashboardFail", r, CHOOSE call \in r.pending : TRUE)
    /\ dashOps' = dashOps - 1
    /\ RootFrame

\* The caller that awaited a load function goes on.
RootReturned(c, r, n) ==
    IF r.chain = "loadDashboard"
    THEN DashboardContinued(c, DashboardAwaits(c, r.fn), r.opts, n)
    ELSE IF r.chain = "handleLineChange" /\ r.fn = "loadLineData"
    THEN RootLoad(c, "loadIncidentsData", r.opts, n, "", NoOpts)
    ELSE NoLoads(c, n)

\* One API call of a load function answers; the function goes on once it
\* has every answer it awaits.
RootCallOk(r, call) ==
    /\ r \in dashNet /\ r.comp = "root" /\ r.fn \in DOMAIN RootLoads
    /\ call \in r.pending
    /\ IF r.pending = {call}
       THEN RootUpdated(RootReturned(LoadSucceeded(root, RootLoads[r.fn], r), r, dashSeq),
                        dashNet \ {r})
       ELSE /\ dashNet' = (dashNet \ {r}) \cup {Answered(r, call)}
            /\ UNCHANGED <<root, sw, shift, props, dashSeq>>
    /\ ev' = DashEv(IF r.pending = {call} THEN "loadOk" ELSE "callOk", r, call)
    /\ UNCHANGED dashOps
    /\ RootFrame

RootCallFail(r, call) ==
    /\ dashOps > 0
    /\ r \in dashNet /\ r.comp = "root" /\ r.fn \in DOMAIN RootLoads
    /\ call \in r.pending
    /\ RootUpdated(RootReturned(LoadFailed(root, RootLoads[r.fn], r), r, dashSeq),
                   dashNet \ {r})
    /\ ev' = DashEv("loadFail", r, call)
    /\ dashOps' = dashOps - 1
    /\ RootFrame

\* The header: the tenant buttons show with more than one tenant.
RootHandleTenantChange(tenantId) ==
    /\ root.mounted /\ dashOps > 0
    /\ Len(root.availableTenants) > 1 /\ tenantId \in Range(root.availableTenants)
    /\ RootUpdated(LoadDashboard([root EXCEPT !.selectedTenantId = tenantId,
                                              !.dashboardView = "Dashboard",
                                              !.selectedLine = ""], dashSeq),
                   dashNet)
    /\ dashOps' = dashOps - 1
    /\ ev' = [UserEv("handleTenantChange") EXCEPT !.arg = Arg(tenantId, "", "")]
    /\ RootFrame

RootHandleDashboardViewChange(view) ==
    /\ root.mounted /\ dashOps > 0
    /\ view # root.dashboardView
    /\ RootUpdated(NoLoads([root EXCEPT !.dashboardView = view], dashSeq), dashNet)
    /\ dashOps' = dashOps - 1
    /\ ev' = UserEv("handleDashboardViewChange")
    /\ RootFrame

\* The secondary loads handleRangeChange adds.
SecondaryLoads(c) ==
    IF c.selectedSecondaryOption = "orientation" THEN <<"loadOrientationData">>
    ELSE IF c.selectedSecondaryOption = "coating" THEN <<"loadCoatingData">>
    ELSE <<>>

\* The range select of the header shows unless the dashboard is a shift
\* dashboard.
RootHandleRangeChange(value) ==
    /\ root.mounted /\ dashOps > 0
    /\ DashboardType(root) # "shift"
    /\ value \in Range(root.activeRangeOptions) /\ value # root.rangeSelection
    /\ RootUpdated(RootLoadEach([root EXCEPT !.rangeSelection = value],
                                <<"loadOverview", "loadLineData", "loadIncidentsData">>
                                    \o SecondaryLoads(root),
                                NoOpts, dashSeq),
                   dashNet)
    /\ dashOps' = dashOps - 1
    /\ ev' = UserEv("handleRangeChange")
    /\ RootFrame

\* A line is picked on a card of the overview, or, once a line is
\* selected, on a button of the line selector.
LineOffered(c, line) ==
    /\ Rendered(c) = "general"
    /\ line \in Range(TenantConfig(c.tenantConfig).available_lines)
    /\ \/ ~c.overviewLoading /\ c.overviewError = Null /\ c.overviewMetrics.seq # 0
       \/ c.selectedLine # "" /\ line \in Range(c.lineOptions)

RootHandleLineChange(line) ==
    /\ root.mounted /\ dashOps > 0
    /\ LineOffered(root, line)
    /\ LET systems == TenantConfig(root.tenantConfig).available_systems
           c1 == [root EXCEPT !.selectedLine = line,
                              !.selectedSystem =
                                  IF Len(systems) > 0 /\ @ \notin Range(systems)
                                  THEN systems[1] ELSE @]
       IN RootUpdated(RootLoadAwait(c1, <<"loadLineData", "loadIncidentsData">>,
                                    [NoOpts EXCEPT !.lineId = line], dashSeq,
                                    "handleLineChange"),
                      dashNet)
    /\ dashOps' = dashOps - 1
    /\ ev' = [UserEv("handleLineChange") EXCEPT !.arg = Arg("", line, "")]
    /\ RootFrame

\* The toggle bar of the line details.
RootHandleSecondaryChange(option) ==
    /\ root.mounted /\ dashOps > 0
    /\ Rendered(root) = "general" /\ root.selectedLine # "" /\ root.tenantConfig # ""
    /\ option # root.selectedSecondaryOption
    /\ LET c1 == [root EXCEPT !.selectedSecondaryOption = option]
           fns == IF option = "orientation" THEN <<"loadOrientationData">>
                  ELSE IF option = "coating" THEN <<"loadCoatingData">>
                  ELSE IF option = "system" THEN <<"loadSystemHealthData">>
                  ELSE <<>>
       IN RootUpdated(RootLoadEach(c1, fns, NoOpts, dashSeq), dashNet)
    /\ dashOps' = dashOps - 1
    /\ ev' = UserEv("handleSecondaryChange")
    /\ RootFrame

(***************************************************************************)
(* API client: the query strings of the range requests                     *)
(***************************************************************************)
Digit(d) ==
    CASE d = 0 -> "0" [] d = 1 -> "1" [] d = 2 -> "2" [] d = 3 -> "3" [] d = 4 -> "4"
      [] d = 5 -> "5" [] d = 6 -> "6" [] d = 7 -> "7" [] d = 8 -> "8" [] OTHER -> "9"

DigitValue(ch) == CHOOSE d \in 0..9 : Digit(d) = ch

\* String(n), days.toString(): the decimal digits of n.
RECURSIVE DecimalString(_)
DecimalString(n) ==
    IF n < 10 THEN <<Digit(n)>> ELSE DecimalString(n \div 10) \o <<Digit(n % 10)>>

\* new URLSearchParams({...}) is a sequence of name/value pairs, and
\* params.set(name, value) replaces the value of a name or appends the pair.
HasParam(query, name) == \E k \in DOMAIN query : query[k][1] = name

Param(query, name) == query[CHOOSE k \in DOMAIN query : query[k][1] = name][2]

ParamsSet(query, name, value) ==
    IF HasParam(query, name)
    THEN [k \in DOMAIN query |-> IF query[k][1] = name THEN <<name, value>> ELSE query[k]]
    ELSE Append(query, <<name, value>>)

\* if (value) params.set(name, String(value)), for a number
SetIfTruthy(query, name, value) ==
    IF value # 0 THEN ParamsSet(query, name, DecimalString(value)) ELSE query

\* if (shiftFilter) params.set('shift_filter', shiftFilter)
SetShiftFilter(query, shiftFilter) ==
    IF shiftFilter # <<>> THEN ParamsSet(query, "shift_filter", shiftFilter) ELSE query

GetOverviewQueryDaysOnly(days, options) ==
    SetShiftFilter(<<<<"days", DecimalString(days)>>>>, options.shiftFilter)

GetOverviewQuery(days, options) ==
    SetShiftFilter(
        SetIfTruthy(<<<<"days", DecimalString(days)>>>>, "range_hours", options.rangeHours),
        options.shiftFilter)

GetShiftSnapshotQuery(options) ==
    SetIfTruthy(
        SetIfTruthy(
            SetShiftFilter(
                <<<<"shift_hours", DecimalString(IF options.shiftHours # 0
                                            THEN options.shiftHours ELSE 12)>>,
                  <<"exclude_blackout", <<"f", "a", "l", "s", "e">>>>>>,
                options.shiftFilter),
            "range_hours", options.rangeHours),
        "days", options.days)

GetSidewallSnapshotQuery(days, rangeHours) ==
    SetIfTruthy(<<<<"days", DecimalString(days)>>>>, "range_hours", rangeHours)

\* The query loadOverview of the root builds for a range option: days
\* falls back to currentRangeDays, which is `option.days ?? 1`.
RootOverviewQuery(option) ==
    GetOverviewQuery(IF option.days # 0 THEN option.days ELSE 1,
                     [rangeHours |-> option.rangeHours, shiftFilter |-> option.shiftFilter])

\* The query loadSnapshot of the Sidewall view builds for the rangeParams
\* it is passed: rangeDays is `rangeParams?.days ?? 7`.
SidewallSnapshotQuery(option) ==
    GetSidewallSnapshotQuery(IF option.days # 0 THEN option.days ELSE 7, option.rangeHours)

\* The query loadSnapshot of the Shift view builds for a range option.
ShiftSnapshotQuery(option) ==
    GetShiftSnapshotQuery([shiftHours |-> 12, shiftFilter |-> option.shiftFilter,
                           rangeHours |-> option.rangeHours, days |-> option.days])

\* The range options a run builds queries for: rangeHours and days, each
\* absent (0) or present, and a shift filter.
ApiHours == {0, 1, 6, 12}
ApiDays == {0, 1, 7, 30}
ApiOptions ==
    [rangeHours : ApiHours, days : ApiDays, shiftFilter : {<<>>, <<"a", "l", "l">>}]

ApiIdle == [fn |-> "", option |-> [rangeHours |-> 0, days |-> 0, shiftFilter |-> <<>>],
            query |-> <<>>]

ApiBuilt(fn, query) ==
    /\ api' = [api EXCEPT !.fn = fn, !.query = query]
    /\ ev' = UserEv(fn)
    /\ ApiFrame

ApiGetOverview == ApiBuilt("getOverview", RootOverviewQuery(api.option))

ApiGetSidewallSnapshot == ApiBuilt("getSidewallSnapshot", SidewallSnapshotQuery(api.option))

ApiGetShiftSnapshot == ApiBuilt("getShiftSnapshot", ShiftSnapshotQuery(api.option))

\* The server is not part of the repository.  Per the specification its
\* window is the range_hours of the query when present, else its days.
RECURSIVE ParseInt(_)
ParseInt(s) ==
    IF Len(s) = 1 THEN DigitValue(s[1])
    ELSE 10 * ParseInt(SubSeq(s, 1, Len(s) - 1)) + DigitValue(s[Len(s)])

ServerWindowHours(query) ==
    IF HasParam(query, "range_hours") THEN ParseInt(Param(query, "range_hours"))
    ELSE IF HasParam(query, "days") THEN 24 * ParseInt(Param(query, "days"))
    ELSE ParseInt(Param(query, "shift_hours"))

(***************************************************************************)
(* API client: one call and its outcome                                    *)
(***************************************************************************)
\* What `await fetch(...)` gives a call: a rejection (no response), or a
\* response with its status and body.  The body parses as JSON or not; of a
\* parsed body the model keeps the `detail` field ("" when it is absent or
\* empty) and the `saved` field.
Statuses == {200, 404, 500}

FetchRejected ==
    [rejected |-> TRUE, status |-> 0, json |-> FALSE, detail |-> "", saved |-> FALSE]

Fetched ==
    {FetchRejected} \cup
    [rejected : {FALSE}, status : Statuses, json : BOOLEAN,
     detail : {"", "Not permitted"}, saved : BOOLEAN]

\* The exported functions: the generic message of the call, what it returns
\* of an ok response, and what it does with a response that is not ok.
ClientFunctions ==
    [getSavedItems |->
        [generic |-> "Failed to fetch saved items", returns |-> "json", notOk |-> "throw"],
     checkMessageSaved |->
        [generic |-> "", returns |-> "saved", notOk |-> "false"],
     getSavedItemById |->
        [generic |-> "Failed to fetch saved item", returns |-> "json", notOk |-> "null404"],
     createSavedItem |->
        [generic |-> "Failed to save item", returns |-> "json", notOk |-> "throw"],
     updateSavedItem |->
        [generic |-> "Failed to update saved item", returns |-> "json", notOk |-> "throw"],
     deleteSavedItem |->
        [generic |-> "Failed to delete saved item", returns |-> "void", notOk |-> "throw"],
     reorderSavedItems |->
        [generic |-> "Failed to reorder items", returns |-> "void", notOk |-> "throw"],
     getMyStuffChartData |->
        [generic |-> "Failed to load chart data", returns |-> "json", notOk |-> "throw"],
     getAvailableDashboards |->
        [generic |-> "Failed to fetch dashboards", returns |-> "tenants", notOk |-> "throw"],
     getTenantConfig |->
        [generic |-> "Failed to fetch tenant config", returns |-> "json", notOk |-> "throw"],
     getOverview |->
        [generic |-> "Failed to fetch overview", returns |-> "json", notOk |-> "throw"]]

ClientFunctionNames == DOMAIN ClientFunctions

NoOutcome == [kind |-> "", value |-> "", message |-> ""]

Returned(value) == [kind |-> "return", value |-> value, message |-> ""]

Thrown(message) == [kind |-> "throw", value |-> "", message |-> message]

\* res.ok
ResOk(f) == f.status >= 200 /\ f.status <= 299

\* A variant of the error message that never looks at the body.
ErrorMessageGenericOnly(f, generic) == generic

\* const error = await res.json().catch(() => ({ detail: generic }));
\* throw new Error(error.detail || generic)
ErrorMessage(f, generic) ==
    IF (IF f.json THEN f.detail ELSE generic) # ""
    THEN (IF f.json THEN f.detail ELSE generic)
    ELSE generic

\* `return res.json()` and `const data = await res.json(); return data.x`:
\* a body that does not parse rejects the call with the parser's error.
ResJson(f, value) ==
    IF f.json THEN Returned(value) ELSE Thrown("SyntaxError")

\* One call of an exported function, given what its fetch gives it.
ClientOutcome(fn, f) ==
    IF f.rejected THEN Thrown("TypeError")
    ELSE IF ~ResOk(f)
    THEN IF ClientFunctions[fn].notOk = "false" THEN Returned("false")
         ELSE IF ClientFunctions[fn].notOk = "null404" /\ f.status = 404
         THEN Returned("null")
         ELSE Thrown(ErrorMessage(f, ClientFunctions[fn].generic))
    ELSE IF ClientFunctions[fn].returns = "void" THEN Returned("undefined")
    ELSE IF ClientFunctions[fn].returns = "tenants" THEN ResJson(f, "body.tenants")
    ELSE IF ClientFunctions[fn].returns = "saved"
    THEN ResJson(f, IF f.saved THEN "true" ELSE "false")
    ELSE ResJson(f, "body")

\* The call state, with the state of the AddToMyStuffButton that makes the
\* check call when it mounts.
ClientIdle ==
    [fn |-> "", fetched |-> FetchRejected, outcome |-> NoOutcome, requests |-> 0,
     caller |-> "", isSaved |-> FALSE, checkingStatus |-> TRUE]

\* An exported function is called: one fetch, then its outcome.
ClientCall(fn) ==
    /\ client' = [client EXCEPT !.fn = fn, !.caller = "",
                                !.outcome = ClientOutcome(fn, client.fetched),
                                !.requests = 1]
    /\ ev' = UserEv(fn)
    /\ ClientFrame

\* onMount of the button: the check is made with a token and a message id,
\* and a failure of it is caught and logged.
AddButtonOnMount(token) ==
    /\ client' =
         IF token # ""
         THEN [client EXCEPT
                 !.fn = "checkMessageSaved", !.caller = "onMount",
                 !.outcome = ClientOutcome("checkMessageSaved", client.fetched),
                 !.requests = 1,
                 !.isSaved =
                     IF ClientOutcome("checkMessageSaved", client.fetched).kind = "return"
                     THEN ClientOutcome("checkMessageSaved", client.fetched).value = "true"
                     ELSE FALSE,
                 !.checkingStatus = FALSE]
         ELSE [client EXCEPT !.fn = "", !.caller = "onMount", !.outcome = NoOutcome,
                             !.requests = 0, !.isSaved = FALSE,
                             !.checkingStatus = FALSE]
    /\ ev' = UserEv("onMount")
    /\ ClientFrame

(***************************************************************************)
(* Chart primitives                                                        *)
(***************************************************************************)
\* A series value as JavaScript sees it: a number, null, or NaN.
Num(n) == [k |-> "num", v |-> n]
NullV == [k |-> "null", v |-> 0]
NaNV == [k |-> "nan", v |-> 0]

ChartValues == {Num(-1), Num(2), NullV, NaNV}

SeqsUpTo(S, n) == UNION {[1..m -> S] : m \in 0..n}

\* The props of a chart in a run: the number of labels, and the values of
\* each series (for the multi-line chart, the values of its data points).
ChartProps ==
    [labels : 0..MaxLabels,
     series : SeqsUpTo(SeqsUpTo(ChartValues, MaxPoints), MaxSeriesCount)]

\* isNaN(v): null converts to 0.
IsNaN(x) == x.k = "nan"

\* v !== null && v !== undefined
NotNullish(x) == x.k # "null"

\* v !== null && v !== undefined && !isNaN(v)
IsPoint(x) == NotNullish(x) /\ ~IsNaN(x)

\* `x || 0` for a value or a missing element: the number, else 0.
OrZero(values, i) == IF i \in DOMAIN values /\ values[i].k = "num" THEN values[i].v ELSE 0

RECURSIVE FlatMap(_)
FlatMap(seqs) == IF seqs = <<>> THEN <<>> ELSE Head(seqs) \o FlatMap(Tail(seqs))

\* series.flatMap((s) => s.values.filter((v) => v !== null && v !== undefined))
FilteredValues(series) == SelectSeq(FlatMap(series), NotNullish)

\* Math.min(...values, extra) and Math.max(...values, extra): NaN if any
\* argument is NaN; null converts to 0.
MathMin(values, extra) ==
    IF \E k \in DOMAIN values : IsNaN(values[k]) THEN NaNV
    ELSE LET S == {values[k].v : k \in DOMAIN values} \cup {extra}
         IN Num(CHOOSE x \in S : \A y \in S : x <= y)

MathMax(values, extra) ==
    IF \E k \in DOMAIN values : IsNaN(values[k]) THEN NaNV
    ELSE LET S == {values[k].v : k \in DOMAIN values} \cup {extra}
         IN Num(CHOOSE x \in S : \A y \in S : x >= y)

\* $: minValue, $: maxValue of the line and scatter charts.
MinValue(series) ==
    IF Len(FilteredValues(series)) > 0 THEN MathMin(FilteredValues(series), 0) ELSE Num(0)

MaxValue(series) ==
    IF Len(FilteredValues(series)) > 0 THEN MathMax(FilteredValues(series), 1) ELSE Num(1)

\* yScale(v): a pixel position, NaN when the domain or the value is; the
\* model keeps the value the position stands for.
YScale(x, minValue, maxValue) ==
    IF IsNaN(x) \/ IsNaN(minValue) \/ IsNaN(maxValue) THEN NaNV
    ELSE Num(IF x.k = "num" THEN x.v ELSE 0)

\* The indices of the values generatePath keeps, in order.
RECURSIVE PointIndices(_, _)
PointIndices(values, i) ==
    IF i > Len(values) THEN <<>>
    ELSE (IF IsPoint(values[i]) THEN <<i>> ELSE <<>>) \o PointIndices(values, i + 1)

\* generatePath of the line chart: 'M' to the first kept point, 'L' to each
\* of the others; '' (the empty path) without one.
GeneratePath(values, minValue, maxValue) ==
    [k \in DOMAIN PointIndices(values, 1) |->
        [cmd |-> IF k = 1 THEN "M" ELSE "L",
         i |-> PointIndices(values, 1)[k],
         y |-> YScale(values[PointIndices(values, 1)[k]], minValue, maxValue)]]

\* buildPath of the multi-line chart: every data point, none left out.
BuildPath(data, minValue, maxValue) ==
    [k \in DOMAIN data |->
        [cmd |-> IF k = 1 THEN "M" ELSE "L", i |-> k,
         y |-> YScale(data[k], minValue, maxValue)]]

\* What a chart renders: its value domain, the "No data available" text,
\* the path of each series or slice (a path element is rendered for each
\* that is not empty) and the number of its circles or rects.
NoChartOutput ==
    [minValue |-> Num(0), maxValue |-> Num(1), placeholder |-> FALSE, paths |-> <<>>,
     marks |-> 0, total |-> 0]

\* {#if pathD}, {#if line.data.length > 0}
PathElements(out) == {k \in DOMAIN out.paths : out.paths[k] # <<>>}

\* The line chart (MultiSeriesLineChart), showDots left at its default.
LineChart(p) ==
    [NoChartOutput EXCEPT
        !.minValue = MinValue(p.series),
        !.maxValue = MaxValue(p.series),
        !.paths = [k \in DOMAIN p.series |->
                      GeneratePath(p.series[k], MinValue(p.series), MaxValue(p.series))],
        !.placeholder = (p.labels = 0 \/ Len(p.series) = 0)]

\* The multi-line chart (MultiLineChart), showLines and showDots at their
\* defaults.  Its domain takes every value of every series.
MultiLineChart(p) ==
    [NoChartOutput EXCEPT
        !.minValue = MathMin(FlatMap(p.series), 0),
        !.maxValue = MathMax(FlatMap(p.series), 1),
        !.paths = [k \in DOMAIN p.series |->
                      BuildPath(p.series[k], MathMin(FlatMap(p.series), 0),
                                MathMax(FlatMap(p.series), 1))],
        !.placeholder = (Len(p.series) = 0)]

RECURSIVE SumOver(_, _)
SumOver(f, n) == IF n = 0 THEN 0 ELSE f[n] + SumOver(f, n - 1)

\* $: allValues of the bar chart.
BarValues(p, stacked) ==
    IF stacked
    THEN [i \in 1..p.labels |->
            Num(SumOver([k \in DOMAIN p.series |-> OrZero(p.series[k], i)], Len(p.series)))]
    ELSE FilteredValues(p.series)

\* The bar chart: its domain starts at 0; a rect for each positive value.
BarChart(p, stacked) ==
    [NoChartOutput EXCEPT
        !.minValue = Num(0),
        !.maxValue = IF Len(BarValues(p, stacked)) > 0 THEN MathMax(BarValues(p, stacked), 1)
                     ELSE Num(1),
        !.marks = IF p.labels > 0 /\ Len(p.series) > 0
                  THEN Cardinality({<<i, k>> \in (1..p.labels) \X DOMAIN p.series :
                                       OrZero(p.series[k], i) > 0})
                  ELSE 0,
        !.placeholder = (p.labels = 0 \/ Len(p.series) = 0)]

\* The scatter chart: a circle for each value that is a number.
ScatterChart(p) ==
    [NoChartOutput EXCEPT
        !.minValue = MinValue(p.series),
        !.maxValue = MaxValue(p.series),
        !.marks = Len(SelectSeq(FlatMap(p.series), IsPoint)),
        !.placeholder = (p.labels = 0 \/ Len(p.series) = 0)]

\* $: pieData of the pie chart: the values of the first series by label, or
\* the first value of each series.
PieData(p) ==
    IF Len(p.series) > 0 /\ Len(p.series[1]) > 1
    THEN [i \in 1..p.labels |-> OrZero(p.series[1], i)]
    ELSE [k \in DOMAIN p.series |-> OrZero(p.series[k], 1)]

\* calculateArcs: angles are kept exact, in degrees times totalValue, so
\* that the slice of a value is value * 360 and the start is -90 * totalValue.
RECURSIVE CalculateArcs(_, _, _)
CalculateArcs(data, totalValue, currentAngle) ==
    IF data = <<>> THEN <<>>
    ELSE <<[cmd |-> "A", i |-> currentAngle, y |-> Num(Head(data) * 360)]>>
         \o CalculateArcs(Tail(data), totalValue, currentAngle + Head(data) * 360)

\* A variant of the arcs in which a slice below zero takes no angle.
PieArcsClamped(data, totalValue) ==
    IF totalValue = 0 THEN <<>>
    ELSE CalculateArcs([k \in DOMAIN data |-> IF data[k] < 0 THEN 0 ELSE data[k]],
                       totalValue, -90 * totalValue)

PieArcs(data, totalValue) ==
    IF totalValue = 0 THEN <<>> ELSE CalculateArcs(data, totalValue, -90 * totalValue)

\* The pie chart: one path per arc, the text without arcs.
PieChart(p) ==
    [NoChartOutput EXCEPT
        !.total = SumOver(PieData(p), Len(PieData(p))),
        !.paths = [k \in DOMAIN PieArcs(PieData(p), SumOver(PieData(p), Len(PieData(p)))) |->
                      <<PieArcs(PieData(p), SumOver(PieData(p), Len(PieData(p))))[k]>>],
        !.placeholder = (PieArcs(PieData(p), SumOver(PieData(p), Len(PieData(p)))) = <<>>)]

ChartIdle ==
    [type |-> "", stacked |-> FALSE, props |-> [labels |-> 0, series |-> <<>>],
     out |-> NoChartOutput]

ChartRendered(type, stacked, out) ==
    /\ chart' = [chart EXCEPT !.type = type, !.stacked = stacked, !.out = out]
    /\ ev' = UserEv(type)
    /\ ChartFrame

RenderLineChart == ChartRendered("line", FALSE, LineChart(chart.props))

RenderMultiLineChart == ChartRendered("multi-line", FALSE, MultiLineChart(chart.props))

RenderBarChart(stacked) == ChartRendered("bar", stacked, BarChart(chart.props, stacked))

RenderScatterChart == ChartRendered("scatter", FALSE, ScatterChart(chart.props))

RenderPieChart == ChartRendered("pie", FALSE, PieChart(chart.props))

(***************************************************************************)
(* Tenant dashboard root: the line and system selections                   *)
(***************************************************************************)
\* The dashboards getAvailableDashboards returns to an account with two
\* general quality tenants and a sidewall tenant.
PlantTenants == <<"plant", "glass", "sidewall">>

\* String.prototype.toUpperCase, on the systems of the sample configs.
ToUpperCase(value) ==
    CASE value = "uvbc" -> "UVBC"
      [] value = "washer" -> "WASHER"
      [] value = "finalcheck" -> "FINALCHECK"
      [] OTHER -> value

\* SYSTEM_LABELS[key] || system.toUpperCase()
FormatSystemLabel(system) ==
    IF ToLowerCase(system) = "finalcheck" THEN "FinalCheck" ELSE ToUpperCase(system)

\* The lines of the factories that have an id, in the order of the config.
FactoryLines(config) ==
    SelectSeq(FlatMap([k \in DOMAIN config.factories |-> config.factories[k].lines]),
              LAMBDA line : line.id # "")

\* deriveLineSystems: the lines and the line -> systems map of the nested
\* factory / line / solution config, and the flat fields of the config where
\* the nested config gives none.
DeriveLineSystems(config) ==
    IF config.factories = <<>>
    THEN [lineOptions |-> config.available_lines, lineSystems |-> config.line_systems]
    ELSE [lineOptions |->
              IF FactoryLines(config) # <<>>
              THEN [k \in DOMAIN FactoryLines(config) |-> FactoryLines(config)[k].id]
              ELSE config.available_lines,
          lineSystems |->
              IF FactoryLines(config) # <<>>
              THEN [id \in {line.id : line \in Range(FactoryLines(config))} |->
                       (CHOOSE line \in Range(FactoryLines(config)) : line.id = id).solutions]
              ELSE config.line_systems]

\* $: finalcheckLineId
FinalcheckLineId(config) ==
    IF config.finalcheck_line_id # "" THEN config.finalcheck_line_id ELSE "CX"

\* $: baseSystemsForLine
BaseSystemsForLine(config, line) ==
    IF line # "" /\ line \in DOMAIN DeriveLineSystems(config).lineSystems
    THEN DeriveLineSystems(config).lineSystems[line]
    ELSE config.available_systems

\* $: supportedSystemsForLine
SupportedSystemsForLine(config, line) ==
    IF /\ "finalcheck" \in Range(config.available_systems)
       /\ "finalcheck" \notin Range(BaseSystemsForLine(config, line))
    THEN BaseSystemsForLine(config, line) \o <<"finalcheck">>
    ELSE BaseSystemsForLine(config, line)

\* `tenantConfig.line_systems?.[line] || tenantConfig.available_systems || []`
FlatSystemsForLine(config, line) ==
    IF line # "" /\ line \in DOMAIN config.line_systems THEN config.line_systems[line]
    ELSE config.available_systems

\* No load of the root in flight, by the tenant it is for.
NoneInFlight == [tenantId \in Range(PlantTenants) |-> 0]

\* The selections of the component and of its stores; the loadDashboard
\* calls awaiting the tenants, a tenant's config or the loads of a tenant's
\* panels; the line data asked for last (lineLoad) and the systems the
\* selected system was validated against last (checked).
SelInit ==
    [mounted |-> FALSE, loading |-> TRUE, error |-> Null,
     availableTenants |-> <<>>, tenantConfig |-> "",
     selectedTenantId |-> "", selectedLine |-> "", selectedSystem |-> "uvbc",
     selectedSecondaryOption |-> "metrics",
     tenants |-> 0, configs |-> NoneInFlight, loads |-> NoneInFlight,
     lineLoad |-> Arg("", "", ""),
     checked |-> [tenantId |-> "", lineId |-> "", systems |-> <<>>],
     ops |-> 0]

\* The line the line block of the reactive statements leaves selected.
SelReactiveLine(c) ==
    IF /\ TenantConfig(c.tenantConfig).dashboard_type \notin DedicatedTypes
       /\ Len(DeriveLineSystems(TenantConfig(c.tenantConfig)).lineOptions) > 0
       /\ c.selectedLine # ""
       /\ c.selectedLine
             \notin Range(DeriveLineSystems(TenantConfig(c.tenantConfig)).lineOptions)
    THEN DeriveLineSystems(TenantConfig(c.tenantConfig)).lineOptions[1]
    ELSE c.selectedLine

\* The system the system block leaves selected for that line.
SelReactiveSystem(c, systems) ==
    IF Len(systems) > 0 /\ c.selectedSystem \notin Range(systems) THEN systems[1]
    ELSE c.selectedSystem

\* The reactive statements over the selections, run when the component
\* updates: the tenant block, the line block and the system block.
SelReactive(c) ==
    [c EXCEPT
       !.selectedTenantId =
           IF Len(c.availableTenants) > 0 /\ @ \notin Range(c.availableTenants)
           THEN c.availableTenants[1] ELSE @,
       !.selectedLine = SelReactiveLine(c),
       !.selectedSystem =
           SelReactiveSystem(c, SupportedSystemsForLine(TenantConfig(c.tenantConfig),
                                                        SelReactiveLine(c)))]

SelRendered(c) ==
    IF c.loading THEN "loading"
    ELSE IF c.error # Null THEN "error"
    ELSE IF TenantConfig(c.tenantConfig).dashboard_type \in DedicatedTypes
    THEN TenantConfig(c.tenantConfig).dashboard_type
    ELSE "general"

\* A handler or continuation has run, leaving c; the component updates.
SelUpdated(c, op, arg) ==
    /\ sel' = SelReactive(c)
    /\ ev' = [UserEv(op) EXCEPT !.arg = arg]
    /\ SelFrame

\* loadDashboard up to `await getAvailableDashboards(token)`.
SelLoadDashboard(c) ==
    [c EXCEPT !.loading = TRUE, !.error = Null, !.tenants = @ + 1]

SelMount ==
    /\ ~sel.mounted
    /\ SelUpdated(SelLoadDashboard([sel EXCEPT !.mounted = TRUE]), "onMount",
                  Arg("", "", ""))

\* loadDashboard up to `await getTenantConfig(token, tenantId)`.
SelTenantsLoaded(c, tenantId) ==
    [c EXCEPT !.availableTenants = PlantTenants, !.selectedTenantId = tenantId,
              !.tenants = @ - 1, !.configs[tenantId] = @ + 1]

SelTenantsOk ==
    /\ sel.tenants > 0
    /\ LET tenantId == IF sel.selectedTenantId \notin Range(PlantTenants)
                       THEN PlantTenants[1] ELSE sel.selectedTenantId
       IN SelUpdated(SelTenantsLoaded(sel, tenantId), "tenantsOk", Arg(tenantId, "", ""))

\* loadLineData as the selection handlers call it: it asks for the data of
\* a line and a system, and returns before its request without a tenant or
\* a line, or with the finalcheck system.
SelLoadLineData(c, tenantId, lineId, system) ==
    IF tenantId = "" \/ lineId = "" \/ system = "finalcheck" THEN c
    ELSE [c EXCEPT !.lineLoad = Arg(tenantId, lineId, system)]

\* loadDashboard from the tenant's config to its return or to
\* `await loadOverview(undefined, tenantId)`: the finalcheck line, the early
\* return of the dedicated types, the default line (of the lineOptions as
\* of the last update) and the validation of the selected system.
SelFinalLine(c, config) ==
    IF c.selectedSystem = "finalcheck" /\ c.selectedLine # FinalcheckLineId(config)
    THEN FinalcheckLineId(config) ELSE c.selectedLine

SelDefaultLine(c, config) ==
    IF SelFinalLine(c, config) = ""
          /\ Len(DeriveLineSystems(TenantConfig(c.tenantConfig)).lineOptions) > 0
    THEN DeriveLineSystems(TenantConfig(c.tenantConfig)).lineOptions[1]
    ELSE SelFinalLine(c, config)

SelValidSystem(c, config, supportedSystems) ==
    IF c.selectedSystem \in Range(supportedSystems) THEN c.selectedSystem
    ELSE IF Len(supportedSystems) > 0 THEN supportedSystems[1]
    ELSE IF Len(config.available_systems) > 0 THEN config.available_systems[1]
    ELSE "uvbc"

SelConfigLoaded(c, tenantId) ==
    IF TenantConfig(tenantId).dashboard_type \in EarlyReturnTypes
    THEN [c EXCEPT !.tenantConfig = tenantId, !.configs[tenantId] = @ - 1,
                   !.selectedLine = "", !.selectedSecondaryOption = "metrics",
                   !.loading = FALSE]
    ELSE [c EXCEPT
            !.tenantConfig = tenantId, !.configs[tenantId] = @ - 1,
            !.selectedLine = SelDefaultLine(c, TenantConfig(tenantId)),
            !.selectedSystem =
                SelValidSystem(c, TenantConfig(tenantId),
                               FlatSystemsForLine(TenantConfig(tenantId),
                                                  SelDefaultLine(c, TenantConfig(tenantId)))),
            !.checked =
                [tenantId |-> tenantId,
                 lineId |-> SelDefaultLine(c, TenantConfig(tenantId)),
                 systems |-> FlatSystemsForLine(TenantConfig(tenantId),
                                                SelDefaultLine(c, TenantConfig(tenantId)))],
            !.loads[tenantId] = @ + 1]

SelConfigOk(tenantId) ==
    /\ sel.configs[tenantId] > 0
    /\ SelUpdated(SelConfigLoaded(sel, tenantId), "configOk", Arg(tenantId, "", ""))

\* getAvailableDashboards or getTenantConfig fails: the catch and finally
\* blocks of loadDashboard.
SelTenantsFail ==
    /\ sel.ops > 0 /\ sel.tenants > 0
    /\ SelUpdated([sel EXCEPT !.tenants = @ - 1, !.error = "detail", !.loading = FALSE,
                              !.ops = @ - 1],
                  "dashboardFail", Arg("", "", ""))

SelConfigFail(tenantId) ==
    /\ sel.ops > 0 /\ sel.configs[tenantId] > 0
    /\ SelUpdated([sel EXCEPT !.configs[tenantId] = @ - 1, !.error = "detail",
                              !.loading = FALSE, !.ops = @ - 1],
                  "dashboardFail", Arg(tenantId, "", ""))

\* loadDashboard from `await loadOverview` to its end: the line data it asks
\* for if a line is selected, and, the loads returned, the finally block.
SelDashboardLoaded(tenantId) ==
    /\ sel.loads[tenantId] > 0
    /\ SelUpdated([SelLoadLineData(sel, tenantId, sel.selectedLine, sel.selectedSystem)
                      EXCEPT !.loads[tenantId] = @ - 1, !.loading = FALSE],
                  "dashboardLoaded", Arg(tenantId, "", ""))

\* The header: the tenant buttons show with more than one tenant.
SelHandleTenantChange(tenantId) ==
    /\ sel.mounted /\ sel.ops > 0
    /\ Len(sel.availableTenants) > 1 /\ tenantId \in Range(sel.availableTenants)
    /\ SelUpdated(SelLoadDashboard([sel EXCEPT !.selectedTenantId = tenantId,
                                               !.selectedLine = "",
                                               !.ops = @ - 1]),
                  "handleTenantChange", Arg(tenantId, "", ""))

\* handleLineChange: the line, the system validated against the flat
\* systems of the line, and the line data unless the system is finalcheck.
SelLineSystem(c, line, lineSystems) ==
    IF c.selectedSystem = "finalcheck"
          /\ line # FinalcheckLineId(TenantConfig(c.tenantConfig))
    THEN IF SelectSeq(lineSystems, LAMBDA sys : sys # "finalcheck") # <<>>
         THEN SelectSeq(lineSystems, LAMBDA sys : sys # "finalcheck")[1]
         ELSE c.selectedSystem
    ELSE IF Len(lineSystems) > 0 /\ c.selectedSystem \notin Range(lineSystems)
    THEN lineSystems[1]
    ELSE c.selectedSystem

SelLineChanged(c, line, lineSystems) ==
    SelLoadLineData([c EXCEPT !.selectedLine = line,
                              !.selectedSystem = SelLineSystem(c, line, lineSystems),
                              !.checked = [tenantId |-> c.tenantConfig, lineId |-> line,
                                           systems |-> lineSystems],
                              !.ops = @ - 1],
                    c.selectedTenantId, line, SelLineSystem(c, line, lineSystems))

\* A line is picked on a card of the overview, or, once a line is selected,
\* on a button of the line selector.
SelHandleLineChange(line) ==
    /\ sel.mounted /\ sel.ops > 0
    /\ SelRendered(sel) = "general"
    /\ \/ line \in Range(TenantConfig(sel.tenantConfig).available_lines)
       \/ /\ sel.selectedLine # ""
          /\ line \in Range(DeriveLineSystems(TenantConfig(sel.tenantConfig)).lineOptions)
    /\ SelUpdated(SelLineChanged(sel, line,
                                 FlatSystemsForLine(TenantConfig(sel.tenantConfig), line)),
                  "handleLineChange", Arg("", line, ""))

\* handleSystemChange, called with the label of a system of the toggle.
SelSystemChanged(c, normalized) ==
    IF normalized = "finalcheck"
    THEN [c EXCEPT !.selectedSystem = normalized,
                   !.selectedLine = FinalcheckLineId(TenantConfig(c.tenantConfig)),
                   !.selectedSecondaryOption = "metrics",
                   !.ops = @ - 1]
    ELSE SelLoadLineData([c EXCEPT !.selectedSystem = normalized, !.ops = @ - 1],
                         c.selectedTenantId, c.selectedLine, normalized)

\* The system toggle of the line details shows with a line selected and
\* more than one system supported for it.
SelHandleSystemChange(system) ==
    /\ sel.mounted /\ sel.ops > 0
    /\ SelRendered(sel) = "general" /\ sel.selectedLine # "" /\ sel.tenantConfig # ""
    /\ Len(SupportedSystemsForLine(TenantConfig(sel.tenantConfig), sel.selectedLine)) > 1
    /\ system \in Range(SupportedSystemsForLine(TenantConfig(sel.tenantConfig),
                                                sel.selectedLine))
    /\ SelUpdated(SelSystemChanged(sel, ToLowerCase(FormatSystemLabel(system))),
                  "handleSystemChange", Arg("", "", system))

\* Neither a client call, a chart nor a selection is in progress.
PureIdle == client = ClientIdle /\ chart = ChartIdle /\ sel = SelInit

\* No dashboard is on the page.
DashIdle ==
    /\ lehr = LehrInit
    /\ scale = ScaleInit
    /\ root = RootInit
    /\ sw = SwInit
    /\ shift = ShiftInit
    /\ props = ViewProps(RootInit)
    /\ dashNet = {}
    /\ dashSeq = 0
    /\ dashOps = 0
    /\ shown = <<>>

(***************************************************************************)
(* My Stuff: specifications                                                *)
(***************************************************************************)
\* Responses and continuations: what the event loop may run next without
\* the user.
MsLoadResponses ==
    \/ \E r \in msNet : MsGetItemsOk(r)
    \/ \E r \in msNet : MsGetItemsFail(r)
    \/ \E r \in msNet, outcome \in {"ok", "soft", "throw"} : MsResolveChart(r, outcome)

MsOrderResponses ==
    \/ \E r \in msNet : MsReorderOk(r)
    \/ \E r \in msNet : MsReorderFail(r)

MsDeleteResponses ==
    \/ \E r \in msNet : MsDeleteOk(r)
    \/ \E r \in msNet : MsDeleteFail(r)

MsTitleResponses ==
    \/ \E r \in msNet : MsTitleOk(r)
    \/ \E r \in msNet : MsTitleFail(r)

MsSeriesResponses ==
    \/ \E r \in msNet : MsSeriesOk(r)
    \/ \E r \in msNet : MsSeriesFail(r)

MsOrders == UNION {Perms(S) : S \in SUBSET ItemIds}

MsDrag ==
    \/ \E p \in MsOrders : MsHandleDndConsider(p)
    \/ \E p \in MsOrders : MsHandleDndFinalize(p)

MsSeriesEditor ==
    \/ \E i \in ItemIds : MsStartEditingSeries(i)
    \/ \E k \in 1..1, name \in NameInputs : MsUpdateSeriesName(k, name)
    \/ \E i \in ItemIds : MsSaveSeriesConfig(i)
    \/ MsCancelEditingSeries

MsTitleEditor ==
    \/ \E i \in ItemIds : MsStartEditingTitle(i)
    \/ \E i \in ItemIds, typed \in TitleInputs : MsSaveTitle(i, typed)
    \/ MsCancelEditingTitle

MsStart(budget, lists) ==
    /\ DashIdle
    /\ api = ApiIdle
    /\ PureIdle
    /\ ms = MsInit
    /\ msNet = {}
    /\ msSrv \in lists
    /\ msSeq = 0
    /\ msOps = budget
    /\ ev = NoEv

\* Every handler of the dashboard, a few invocations deep.
InitMyStuff == MsStart(MaxMsOps, InitialLists)

NextMyStuff ==
    \/ MsLoadItems
    \/ MsLoadResponses
    \/ \E i \in ItemIds : MsHandleRefresh(i)
    \/ \E i \in ItemIds, tf \in Timeframes : MsHandleTimeframeChange(i, tf)
    \/ \E i \in ItemIds : MsHandleDelete(i)
    \/ MsDeleteResponses
    \/ MsTitleEditor
    \/ MsTitleResponses
    \/ MsSeriesEditor
    \/ MsSeriesResponses
    \/ MsDrag
    \/ MsOrderResponses

SpecMyStuff == InitMyStuff /\ [][NextMyStuff]_vars

\* Drags and deletes, deep enough for two reorders to overlap.
InitMsOrder ==
    MsStart(MaxOrderOps,
            {l \in InitialLists : \A k \in DOMAIN l : l[k].series_config = <<>>})

NextMsOrder ==
    \/ MsLoadItems
    \/ MsLoadResponses
    \/ \E i \in ItemIds : MsHandleDelete(i)
    \/ MsDeleteResponses
    \/ MsDrag
    \/ MsOrderResponses

SpecMsOrder == InitMsOrder /\ [][NextMsOrder]_vars

\* The series editor and drags on a page of few charts, many operations deep.
InitMsSeries == MsStart(MaxSeriesOps, {l \in InitialLists : Len(l) <= MaxSeriesCharts})

NextMsSeries ==
    \/ MsLoadItems
    \/ MsLoadResponses
    \/ MsSeriesEditor
    \/ MsSeriesResponses
    \/ MsDrag
    \/ MsOrderResponses

SpecMsSeries == InitMsSeries /\ [][NextMsSeries]_vars

(***************************************************************************)
(* Dashboard views: specifications                                         *)
(***************************************************************************)
\* The Lehr view on its own, under a parent that changes the range.
InitLehr ==
    /\ MsIdle
    /\ PureIdle
    /\ lehr = LehrInit
    /\ scale = ScaleInit
    /\ root = RootInit
    /\ sw = SwInit
    /\ shift = ShiftInit
    /\ api = ApiIdle
    /\ props \in {[tenantId |-> "lehr", tenantConfig |-> "lehr", range |-> v] :
                    v \in RangeInputs}
    /\ dashNet = {}
    /\ dashSeq = 0
    /\ dashOps = MaxLehrOps
    /\ shown = [fn \in DOMAIN LehrLoads |-> 0]
    /\ ev = UserEv("init")

NextLehr ==
    \/ LehrMount
    \/ \E view \in LehrViewOptions : LehrHandleViewChange(view)
    \/ \E v \in RangeInputs : LehrRangeChanged(v)
    \/ \E r \in dashNet : LehrLoadOk(r)
    \/ \E r \in dashNet : LehrLoadFail(r)

SpecLehr == InitLehr /\ [][NextLehr]_vars

\* The scale weight view on its own.
ScaleCalls == UNION {ScaleLoads[fn].calls : fn \in DOMAIN ScaleLoads}

InitScale ==
    /\ MsIdle
    /\ PureIdle
    /\ lehr = LehrInit
    /\ scale = ScaleInit
    /\ root = RootInit
    /\ sw = SwInit
    /\ shift = ShiftInit
    /\ api = ApiIdle
    /\ props \in {[tenantId |-> "scale", tenantConfig |-> cfg, range |-> v] :
                    v \in RangeInputs, cfg \in {"scale", ""}}
    /\ dashNet = {}
    /\ dashSeq = 0
    /\ dashOps = MaxScaleOps
    /\ shown = [fn \in DOMAIN ScaleLoads |-> 0]
    /\ ev = UserEv("init")

NextScale ==
    \/ ScaleMount
    \/ \E systemId \in {"S1", "S2"} : ScaleHandleSystemChange(systemId)
    \/ \E view \in ScaleViewOptions : ScaleHandleViewChange(view)
    \/ \E unit \in {"Pounds", "Tons"} : ScaleHandleUnitChange(unit)
    \/ \E v \in RangeInputs : ScaleRangeChanged(v)
    \/ \E r \in dashNet, call \in ScaleCalls : ScaleCallOk(r, call)
    \/ \E r \in dashNet, call \in ScaleCalls : ScaleCallFail(r, call)

SpecScale == InitScale /\ [][NextScale]_vars

\* The tenant dashboard root.  The stores hold what an earlier visit of
\* the page left in them.
RootStart(budget, tenants) ==
    /\ MsIdle
    /\ PureIdle
    /\ lehr = LehrInit
    /\ scale = ScaleInit
    /\ root \in {[RootInit EXCEPT !.selectedTenantId = tenantId] : tenantId \in tenants}
    /\ sw = SwInit
    /\ shift = ShiftInit
    /\ props = ViewProps(root)
    /\ dashNet = {}
    /\ dashSeq = 0
    /\ dashOps = budget
    /\ shown = <<>>
    /\ api = ApiIdle
    /\ ev = UserEv("init")

RootCalls == UNION {RootLoads[fn].calls : fn \in DOMAIN RootLoads}

SwCalls == UNION {SwLoads(props)[fn].calls : fn \in DOMAIN SwLoads(props)}

ShiftCalls == UNION {ShiftLoads[fn].calls : fn \in DOMAIN ShiftLoads}

RootDashboardResponses ==
    \/ \E r \in dashNet : RootTenantsOk(r)
    \/ \E r \in dashNet : RootConfigOk(r)
    \/ \E r \in dashNet : RootDashboardFail(r)

RootLoadResponses ==
    \/ \E r \in dashNet, call \in RootCalls : RootCallOk(r, call)
    \/ \E r \in dashNet, call \in RootCalls : RootCallFail(r, call)

ViewResponses ==
    \/ \E r \in dashNet, call \in SwCalls : SwCallOk(r, call)
    \/ \E r \in dashNet, call \in SwCalls : SwCallFail(r, call)
    \/ \E r \in dashNet, call \in ShiftCalls : ShiftCallOk(r, call)
    \/ \E r \in dashNet, call \in ShiftCalls : ShiftCallFail(r, call)

\* A general quality dashboard: the selections of the root and its panels.
InitGeneral == RootStart(MaxRootOps, {"", "quality"})

NextGeneral ==
    \/ RootMount
    \/ \E value \in RangeInputs : RootHandleRangeChange(value)
    \/ \E line \in {"L1", "L2"} : RootHandleLineChange(line)
    \/ \E option \in {"metrics", "orientation", "coating", "system"} :
          RootHandleSecondaryChange(option)
    \/ RootDashboardResponses
    \/ RootLoadResponses

SpecGeneral == InitGeneral /\ [][NextGeneral]_vars

\* The tenants of the root and the dashboard views it renders for them.
InitTenants == RootStart(MaxTenantOps, {""} \cup Range(AvailableTenants))

NextTenants ==
    \/ RootMount
    \/ \E tenantId \in Range(AvailableTenants) : RootHandleTenantChange(tenantId)
    \/ \E view \in {"Dashboard", "Insights"} : RootHandleDashboardViewChange(view)
    \/ \E view \in Range(SwViewOptions(props)) : SwHandleViewChange(view)
    \/ RootDashboardResponses
    \/ RootLoadResponses
    \/ ViewResponses

SpecTenants == InitTenants /\ [][NextTenants]_vars

\* Selections of the sidewall and the shift tenant one after the other, on
\* a page whose store holds the shift tenant.
SwitchTenants == {"sidewall", "shift"}

InitSwitch == RootStart(MaxSwitchOps, {"shift"})

NextSwitch ==
    \/ RootMount
    \/ \E tenantId \in SwitchTenants : RootHandleTenantChange(tenantId)
    \/ RootDashboardResponses
    \/ ViewResponses

SpecSwitch == InitSwitch /\ [][NextSwitch]_vars

\* A sidewall tenant under range selections in the header of the root.
InitDedicated == RootStart(MaxDedicatedOps, {"sidewall"})

NextDedicated ==
    \/ RootMount
    \/ \E value \in RangeInputs : RootHandleRangeChange(value)
    \/ RootDashboardResponses
    \/ \E r \in dashNet, call \in RootCalls : RootCallOk(r, call)
    \/ \E r \in dashNet, call \in SwCalls : SwCallOk(r, call)
    \/ \E r \in dashNet, call \in SwCalls : SwCallFail(r, call)

SpecDedicated == InitDedicated /\ [][NextDedicated]_vars

\* The tenant, line and system selections of the root.  The stores hold
\* the tenant an earlier visit of the page left in them.
InitSelect ==
    /\ MsIdle
    /\ DashIdle
    /\ api = ApiIdle
    /\ client = ClientIdle
    /\ chart = ChartIdle
    /\ sel \in {[SelInit EXCEPT !.selectedTenantId = tenantId, !.ops = MaxSelectOps] :
                    tenantId \in {"", "glass"}}
    /\ ev = UserEv("init")

NextSelect ==
    \/ SelMount
    \/ SelTenantsOk
    \/ SelTenantsFail
    \/ \E tenantId \in Range(PlantTenants) : SelConfigOk(tenantId)
    \/ \E tenantId \in Range(PlantTenants) : SelConfigFail(tenantId)
    \/ \E tenantId \in Range(PlantTenants) : SelDashboardLoaded(tenantId)
    \/ \E tenantId \in Range(PlantTenants) : SelHandleTenantChange(tenantId)
    \/ \E line \in {"L1", "L2", "CX"} : SelHandleLineChange(line)
    \/ \E system \in {"uvbc", "washer", "finalcheck"} : SelHandleSystemChange(system)

SpecSelect == InitSelect /\ [][NextSelect]_vars

\* The API client building the queries of a range option.
InitApi ==
    /\ MsIdle
    /\ PureIdle
    /\ DashIdle
    /\ api \in {[ApiIdle EXCEPT !.option = option] : option \in ApiOptions}
    /\ ev = UserEv("init")

NextApi ==
    \/ ApiGetOverview
    \/ ApiGetSidewallSnapshot
    \/ ApiGetShiftSnapshot

SpecApi == InitApi /\ [][NextApi]_vars

\* The API client making calls, for each thing its fetch can give it.
InitClient ==
    /\ MsIdle
    /\ DashIdle
    /\ api = ApiIdle
    /\ chart = ChartIdle
    /\ sel = SelInit
    /\ client \in {[ClientIdle EXCEPT !.fetched = f] : f \in Fetched}
    /\ ev = UserEv("init")

NextClient ==
    \/ \E fn \in ClientFunctionNames : ClientCall(fn)
    \/ \E token \in {"", "token"} : AddButtonOnMount(token)

SpecClient == InitClient /\ [][NextClient]_vars

\* The chart primitives rendering, for each set of props.
InitCharts ==
    /\ MsIdle
    /\ DashIdle
    /\ api = ApiIdle
    /\ client = ClientIdle
    /\ sel = SelInit
    /\ chart \in {[ChartIdle EXCEPT !.props = p] : p \in ChartProps}
    /\ ev = UserEv("init")

NextCharts ==
    \/ RenderLineChart
    \/ RenderMultiLineChart
    \/ \E stacked \in BOOLEAN : RenderBarChart(stacked)
    \/ RenderScatterChart
    \/ RenderPieChart

SpecCharts == InitCharts /\ [][NextCharts]_vars

(***************************************************************************)
(* Dashboard views: properties                                             *)
(***************************************************************************)
\* What a panel shows: its data, loading and error fields.
PanelState(c, P) ==
    [k \in Range(P.data) \cup Range(P.loading) \cup Range(P.error) |-> c[k]]

\* C1: if load A and then load B are issued for the same panel, and A
\* resolves after B, the panel reflects B's result and not A's.  Here for
\* the panels of the Lehr view and an A issued for another range than B:
\* the answer to a load issued before the one the panel shows leaves the
\* panel as it is.
C1_PanelKeepsLaterLoadsResult ==
    [][(/\ ev'.comp = "lehr"
        /\ ev'.op \in {"loadOk", "loadFail"}
        /\ ev'.seq < shown[ev'.fn]
        /\ ev'.key # lehr[LehrLoads[ev'.fn].data[1]].key
        /\ lehr[LehrLoads[ev'.fn].data[1]].seq = shown[ev'.fn])
       => PanelState(lehr', LehrLoads[ev'.fn]) = PanelState(lehr, LehrLoads[ev'.fn])]_vars

\* The Lehr view at rest, its snapshot panel showing the data of another
\* range than the selected one.
C1_SnapshotOfEarlierRangeShown ==
    /\ lehr.mounted
    /\ dashNet = {}
    /\ lehr.snapshot.seq # 0
    /\ lehr.snapshotError = Null
    /\ lehr.snapshot.key # LehrKey

\* C10: a failed load of one panel stores an error only in that panel's
\* error field and leaves the data, loading flag and error of every other
\* panel unchanged.  Here for the panels of the scale weight view, a panel
\* being what one API call feeds.
C10_FailureTouchesOwnPanelOnly ==
    [][(ev'.comp = "scale" /\ ev'.op = "callFail" /\ ev'.chain = "")
       => \A call \in DOMAIN ScalePanels \ {ev'.call} :
            \A k \in Range(ScalePanels[call]) : scale'[k] = scale[k]]_vars

\* A bay table request failed, and the bay metrics panel shows the error.
C10_BayFailureSpread ==
    /\ ev.comp = "scale" /\ ev.op = "callFail" /\ ev.call = "getScaleBayTable"
    /\ scale.bayMetricsError # Null

\* C2: in the root, the response of an async load is applied to view state
\* only if the selection that requested it (tenant, line, system, range)
\* is still the current one, or its request counter is still the latest;
\* otherwise it is discarded and the panel stays as it is.  Here for the
\* responses that arrive while the general dashboard is on the page.
C2_StaleRootResponseDiscarded ==
    [][(/\ ev'.comp = "root"
        /\ ev'.op \in {"loadOk", "loadFail"}
        /\ Rendered(root) = "general"
        /\ \/ ev'.arg # RootArg(root, ev'.fn, NoOpts)
           \/ ev'.key # RootKey(root)
        /\ ~(RootLoads[ev'.fn].counter # ""
             /\ ev'.id = root[RootLoads[ev'.fn].counter]))
       => PanelState(root', RootLoads[ev'.fn]) = PanelState(root, RootLoads[ev'.fn])]_vars

\* The root at rest on a general dashboard, its overview panel showing the
\* metrics of another range than the selected one.
C2_OverviewOfEarlierRangeShown ==
    /\ Rendered(root) = "general"
    /\ \A r \in dashNet : r.comp # "root"
    /\ ~root.overviewLoading /\ root.overviewError = Null
    /\ root.overviewMetrics.seq # 0
    /\ root.overviewMetrics.key # RootKey(root)

\* C8: when the selected tenant's config declares dashboard_type
\* "sidewall", the root renders the Sidewall view, which issues a snapshot
\* request, an inspections request and one incidents request per
\* configured defect class, and no Shift or CaseInspection request is
\* issued.  Here: while the selected tenant is a sidewall tenant the Shift
\* view is not on the page and no request of the Shift view for that
\* tenant is in flight; and the Sidewall view, when it has just been
\* created, has those requests in flight.
C8_SidewallTenantGetsSidewallView ==
    TenantConfig(root.selectedTenantId).dashboard_type = "sidewall"
    => /\ Rendered(root) # "shift"
       /\ \A r \in dashNet : r.comp = "shift" => r.arg.tenantId # root.selectedTenantId
       /\ (Rendered(root) = "sidewall" /\ ev.op \in {"configOk", "handleDashboardViewChange"})
          => /\ \E r \in dashNet : r.comp = "sidewall" /\ r.fn = "loadSnapshot"
             /\ \E r \in dashNet : r.comp = "sidewall" /\ r.fn = "loadInspections"
             /\ \E r \in dashNet :
                   /\ r.comp = "sidewall" /\ r.fn = "loadIncidents"
                   /\ r.pending = {SidewallIncidentsCall(ToLowerCase(cl)) :
                          cl \in Range(TenantConfig(root.selectedTenantId).defect_classes)}

\* The Sidewall view has just been created for the sidewall tenant, with
\* its snapshot, inspections and incidents requests in flight.
C8_SidewallViewCreated ==
    /\ TenantConfig(root.selectedTenantId).dashboard_type = "sidewall"
    /\ root.tenantConfig = root.selectedTenantId
    /\ Rendered(root) = "sidewall" /\ ev.op = "configOk"
    /\ \E r \in dashNet : r.comp = "sidewall" /\ r.fn = "loadSnapshot"
    /\ \E r \in dashNet : r.comp = "sidewall" /\ r.fn = "loadInspections"
    /\ \E r \in dashNet :
          /\ r.comp = "sidewall" /\ r.fn = "loadIncidents"
          /\ Cardinality(r.pending) =
                Len(TenantConfig(root.selectedTenantId).defect_classes)

\* C9: for a range option on which both rangeHours and days are present,
\* the requests built from it include range_hours (range_hours=1 for
\* rangeHours 1) and days is ignored: the window the server computes is the
\* hours, and the range key of the dashboard views is the hour-based one.
C9_HoursTakePrecedence ==
    (api.fn # "" /\ api.option.rangeHours # 0 /\ api.option.days # 0)
    => /\ HasParam(api.query, "range_hours")
       /\ Param(api.query, "range_hours") = DecimalString(api.option.rangeHours)
       /\ ServerWindowHours(api.query) = api.option.rangeHours
       /\ RangeKey(api.option) = <<"h", api.option.rangeHours>>
       /\ (api.option.rangeHours = 1 => Param(api.query, "range_hours") = <<"1">>)

\* The overview query of an option with rangeHours 1 and days 7: it
\* carries both range_hours=1 and days=7.
C9_BothPresentQueryBuilt ==
    /\ api.fn = "getOverview"
    /\ api.option.rangeHours = 1 /\ api.option.days = 7
    /\ Param(api.query, "range_hours") = <<"1">>
    /\ Param(api.query, "days") = <<"7">>

(***************************************************************************)
(* My Stuff: properties                                                    *)
(***************************************************************************)
\* The ids of `order` that the list still holds, in that order.
Remaining(order, list) == SelectSeq(order, LAMBDA i : HasItem(list, i))

\* C3: when a reorder request has failed, the list shows the order that
\* was in place before that reorder was attempted (the order the drag
\* started from, less the items deleted since).
C3_RollbackRestoresPreReorderOrder ==
    ev.op = "reorderFail" => Ids(ms.items) = Remaining(ev.pre, ms.items)

\* A reorder fails while an earlier one is still unanswered.
C3_RollbackDuringEarlierReorder ==
    /\ ev.op = "reorderFail"
    /\ \E q \in msNet : q.kind = "reorder" /\ q.seq < ev.seq

\* C4 as stated: when a reorder request has succeeded, the list shown has
\* the order of the ids that request sent.
C4_ListOrderEqualsIdsAfterSuccess ==
    ev.op = "reorderOk" => Ids(ms.items) = ev.ids

\* C4, amended: when a reorder request has succeeded, the last-confirmed
\* list (lastCommittedItems) has the order of the ids that request sent, and
\* so has the list shown unless a drag, a drop, a delete or a rollback has
\* replaced it since the drop that sent the request.
C4_CommittedOrderEqualsIds ==
    ev.op = "reorderOk" =>
        /\ Ids(ms.lastCommittedItems) = ev.ids
        /\ ev.flag => Ids(ms.items) = ev.ids

\* A reorder that changed the order has succeeded with the list untouched
\* since the drop.
C4_ReorderSucceeded ==
    /\ ev.op = "reorderOk" /\ ev.flag
    /\ ev.ids # ev.pre /\ Len(ev.ids) = NumItems
    /\ Ids(ms.items) = ev.ids

\* C5: every row of the open series editor, which is what saveSeriesConfig
\* sends, carries the source column of its series in `column`, whatever was
\* edited and saved before.
C5_EditorKeepsSourceColumn ==
    ms.editingSeriesId # 0 =>
        \A k \in DOMAIN ms.editingSeriesConfig :
            ms.editingSeriesConfig[k].column = SourceColumn

\* C6: committing a title edit whose text is empty (after trimming) or equal
\* to the item's title issues no request and leaves every item, here and on
\* the service, as it was.
C6_EmptyOrUnchangedTitleIsNoOp ==
    [][(ev'.op = "saveTitle" /\ (Trim(ev'.title) = <<>> \/ ev'.title = ev'.pre))
          => /\ msNet' = msNet
             /\ ms'.items = ms.items
             /\ msSrv' = msSrv
             /\ ItemById(ms'.items, ev'.id).title = ev'.pre]_vars

\* An unchanged title was committed: the editor is closed and the item has
\* the title it had.
C6_UnchangedTitleCommitted ==
    /\ ev.op = "saveTitle" /\ ev.title = ev.pre
    /\ ms.editingTitleId = 0
    /\ ItemById(ms.items, ev.id).title = ev.pre

\* C7: when getSavedItems has returned the empty list, the page shows the
\* empty state, holds no chart data, and no chart-data request is in flight.
C7_EmptyListShowsEmptyState ==
    (ev.op = "getItemsOk" /\ ev.ids = <<>>) =>
        /\ MsView = "empty"
        /\ ms.items = <<>>
        /\ \A r \in msNet : r.kind # "chart"
        /\ \A i \in ItemIds : ~ms.chartDataCache[i].loaded /\ ~ms.chartLoadingStates[i]

\* getSavedItems has answered with the empty list.
C7_EmptyListLoaded ==
    /\ ev.op = "getItemsOk" /\ ev.ids = <<>>
    /\ msSrv = <<>> /\ ~ms.loading

(***************************************************************************)
(* API client: properties                                                  *)
(***************************************************************************)
\* A call has been made and its fetch gave it a response.
ClientAnswered == client.fn # "" /\ ~client.fetched.rejected

\* C11 (as stated): every exported function issues exactly one request and
\* either returns the parsed JSON body or fails with an Error whose message
\* is the server's detail, the generic message of the call when the body
\* does not parse as JSON.
C11_ReturnsBodyOrFailsWithDetail ==
    ClientAnswered =>
        /\ client.requests = 1
        /\ \/ /\ client.outcome = Returned("body")
              /\ client.fetched.json
           \/ /\ client.outcome.kind = "throw"
              /\ client.outcome.message =
                    IF client.fetched.json /\ client.fetched.detail # ""
                    THEN client.fetched.detail
                    ELSE ClientFunctions[client.fn].generic

\* C11 (amended): every exported function issues exactly one request.  Of an
\* ok response it returns the parsed body (getAvailableDashboards its
\* tenants, checkMessageSaved its saved flag, deleteSavedItem and
\* reorderSavedItems nothing), and fails with the parser's error when the
\* body does not parse.  On a response that is not ok checkMessageSaved
\* returns false and getSavedItemById returns null for a 404; every other
\* call fails with an Error whose message is the detail of the parsed body,
\* the generic message when the body does not parse or has no detail.
C11_OutcomeByResponse ==
    ClientAnswered =>
        /\ client.requests = 1
        /\ (ResOk(client.fetched) /\ client.fn \in {"deleteSavedItem", "reorderSavedItems"})
              => client.outcome = Returned("undefined")
        /\ (ResOk(client.fetched) /\ client.fn \notin {"deleteSavedItem", "reorderSavedItems"})
              => IF ~client.fetched.json THEN client.outcome.kind = "throw"
                 ELSE /\ client.outcome.kind = "return"
                      /\ client.outcome.value =
                            CASE client.fn = "getAvailableDashboards" -> "body.tenants"
                              [] client.fn = "checkMessageSaved" ->
                                    IF client.fetched.saved THEN "true" ELSE "false"
                              [] OTHER -> "body"
        /\ (~ResOk(client.fetched) /\ client.fn = "checkMessageSaved")
              => client.outcome = Returned("false")
        /\ (client.fetched.status = 404 /\ client.fn = "getSavedItemById")
              => client.outcome = Returned("null")
        /\ (/\ ~ResOk(client.fetched)
            /\ client.fn # "checkMessageSaved"
            /\ ~(client.fetched.status = 404 /\ client.fn = "getSavedItemById"))
              => /\ client.outcome.kind = "throw"
                 /\ client.outcome.message =
                       IF client.fetched.json /\ client.fetched.detail # ""
                       THEN client.fetched.detail
                       ELSE ClientFunctions[client.fn].generic

\* getTenantConfig has failed with the detail the server sent.
C11_FailedWithServerDetail ==
    /\ client.fn = "getTenantConfig"
    /\ client.fetched.status = 500
    /\ client.fetched.json
    /\ client.outcome = Thrown("Not permitted")

\* C12: whenever the check fails, by a response that is not ok or by a
\* rejection of the fetch, checkMessageSaved reports false and propagates
\* nothing to its caller.
C12_CheckReportsFalseOnFailure ==
    (/\ client.fn = "checkMessageSaved"
     /\ client.fetched.rejected \/ ~ResOk(client.fetched))
        => client.outcome = Returned("false")

\* The button has mounted with the fetch of its check rejected: the call
\* threw, and the button shows the item as not saved.
C12_ButtonCaughtRejectedCheck ==
    /\ client.caller = "onMount"
    /\ client.fetched.rejected
    /\ client.outcome.kind = "throw"
    /\ ~client.isSaved /\ ~client.checkingStatus

(***************************************************************************)
(* Chart primitives: properties                                            *)
(***************************************************************************)
\* The chart was given empty labels or an empty series list.  The
\* multi-line chart has no labels prop.
ChartInputEmpty ==
    IF chart.type = "multi-line" THEN chart.props.series = <<>>
    ELSE chart.props.labels = 0 \/ chart.props.series = <<>>

\* C13: every chart primitive given empty labels or empty series renders
\* the "No data available" text and no path or arc element.
C13_EmptyInputRendersPlaceholderOnly ==
    (chart.type # "" /\ ChartInputEmpty)
        => chart.out.placeholder /\ PathElements(chart.out) = {}

\* The line chart was given series but no labels: it renders the text and,
\* under it, a line.
C13_LineDrawnUnderPlaceholder ==
    /\ chart.type = "line"
    /\ chart.props.labels = 0
    /\ chart.out.placeholder
    /\ \E k \in PathElements(chart.out) : Len(chart.out.paths[k]) > 1

\* C14: for every chart with a value axis and every input series, the
\* value domain [minValue, maxValue] contains 0 and has maxValue > minValue.
C14_DomainContainsZeroAndHasWidth ==
    chart.type \in {"line", "multi-line", "bar", "scatter"}
        => /\ chart.out.minValue.k = "num" /\ chart.out.maxValue.k = "num"
           /\ chart.out.minValue.v <= 0 /\ 0 <= chart.out.maxValue.v
           /\ chart.out.maxValue.v > chart.out.minValue.v

\* The line chart was given a series with a number and a NaN: its domain
\* is NaN to NaN.
C14_DomainIsNaN ==
    /\ chart.type = "line"
    /\ \E k \in DOMAIN chart.props.series :
          \E i, j \in DOMAIN chart.props.series[k] :
             IsNaN(chart.props.series[k][i]) /\ chart.props.series[k][j].k = "num"
    /\ IsNaN(chart.out.minValue) /\ IsNaN(chart.out.maxValue)

\* A line segment of the path runs over position i.
SegmentOver(path, i) ==
    \E j \in 2..Len(path) : path[j].cmd = "L" /\ path[j - 1].i <= i /\ i <= path[j].i

\* C15: in the paths of the line charts, a series with null or NaN at index
\* i, between two numbers, has a break at i: no line segment joins the
\* points before and after it.
C15_PathBreaksAtGap ==
    chart.type \in {"line", "multi-line"}
        => \A k \in DOMAIN chart.props.series :
              \A i \in DOMAIN chart.props.series[k] :
                 (/\ ~IsPoint(chart.props.series[k][i])
                  /\ \E a \in 1..(i - 1) : IsPoint(chart.props.series[k][a])
                  /\ \E b \in (i + 1)..Len(chart.props.series[k]) :
                        IsPoint(chart.props.series[k][b]))
                    => ~SegmentOver(chart.out.paths[k], i)

\* The line chart was given a series number, null, number: its path goes
\* from the first point straight to the third.
C15_LineJoinsAcrossNull ==
    /\ chart.type = "line"
    /\ \E k \in DOMAIN chart.props.series :
          /\ Len(chart.props.series[k]) = 3
          /\ chart.props.series[k][2] = NullV
          /\ Len(chart.out.paths[k]) = 2
          /\ chart.out.paths[k][2].cmd = "L"
          /\ chart.out.paths[k][1].i = 1 /\ chart.out.paths[k][2].i = 3

\* C16: in the pie chart with a total above 0, the slices start at -90
\* degrees, each starts where the one before it ends, and their angles sum
\* to 360 degrees (angles are in degrees times the total).
C16_SliceAnglesSumTo360 ==
    (chart.type = "pie" /\ chart.out.total > 0)
        => /\ chart.out.paths # <<>>
           /\ chart.out.paths[1][1].i = -90 * chart.out.total
           /\ \A k \in 2..Len(chart.out.paths) :
                 chart.out.paths[k][1].i =
                    chart.out.paths[k - 1][1].i + chart.out.paths[k - 1][1].y.v
           /\ SumOver([k \in DOMAIN chart.out.paths |-> chart.out.paths[k][1].y.v],
                      Len(chart.out.paths)) = 360 * chart.out.total

\* A pie of two slices, one of them below zero, with a total above 0.
C16_TwoSlicesDrawn ==
    /\ chart.type = "pie"
    /\ chart.out.total > 0
    /\ Len(chart.out.paths) = 2
    /\ \E k \in DOMAIN chart.out.paths : chart.out.paths[k][1].y.v < 0

\* C17: when the user selects tenant A and then tenant B before A's load
\* has finished, then after all requests have completed the applied
\* tenantConfig is B's.  Here: whenever no request is in flight and the last
\* loadDashboard did not fail, the applied config is the one of the selected
\* tenant.
C17_AppliedConfigIsOfSelectedTenant ==
    (root.mounted /\ dashNet = {} /\ root.error = Null /\ ~root.loading)
        => root.tenantConfig = root.selectedTenantId

\* Every request has completed without an error remaining, and the config
\* on the page is the one of a tenant that is no longer the selected one.
C17_ConfigOfEarlierTenantApplied ==
    /\ root.mounted /\ dashNet = {} /\ root.error = Null /\ ~root.loading
    /\ root.tenantConfig # ""
    /\ root.tenantConfig # root.selectedTenantId

\* C18: after deleteSavedItem has succeeded for an item, the item never
\* reappears in the list: neither the completion of a reorder that was in
\* flight nor the rollback of a later failed reorder brings it back.  Ids
\* are never issued twice, so the deleted items are those the service no
\* longer holds: every item shown is an item of the service.
C18_DeletedItemNeverShown ==
    \A k \in DOMAIN ms.items : HasItem(msSrv, ms.items[k].id)

\* The rollback of a failed reorder has put an item back on the page that
\* was deleted, with success, before that reorder was issued.
C18_RollbackRestoredDeletedItem ==
    /\ ev.op = "reorderFail"
    /\ \E k \in DOMAIN ms.items :
          /\ ~HasItem(msSrv, ms.items[k].id)
          /\ ms.items[k].id \notin Range(ev.ids)

\* C19: when two overlapping reorders both succeed, the list shown and the
\* last server-confirmed order (lastCommittedItems) both have the order of
\* the reorder issued most recently, whatever the order the two responses
\* arrive in.  Here: of two reorder successes one right after the other,
\* with no reorder left in flight and the list untouched since the later
\* drop, the second leaves both lists in the order of the request with the
\* higher sequence number.
C19_LaterReorderWins ==
    [][(/\ ev.op = "reorderOk" /\ ev'.op = "reorderOk"
        /\ (IF ev.seq > ev'.seq THEN ev.flag ELSE ev'.flag)
        /\ \A q \in msNet' : q.kind # "reorder")
          => LET latest == IF ev.seq > ev'.seq THEN ev.ids ELSE ev'.ids
             IN /\ Ids(ms'.items) = latest
                /\ Ids(ms'.lastCommittedItems) = latest]_vars

\* The reorder issued first has been answered last: with no reorder in
\* flight and no drag in progress, lastCommittedItems has its order, which
\* is not the order of the list shown.
C19_EarlierReorderCommittedLast ==
    /\ ev.op = "reorderOk" /\ ~ev.flag
    /\ \A q \in msNet : q.kind # "reorder"
    /\ ms.dragBase = <<>>
    /\ Ids(ms.lastCommittedItems) = ev.ids
    /\ Range(ev.ids) = Range(Ids(ms.items))
    /\ Ids(ms.items) # ev.ids

\* C20: the rollback of a failed reorder restores only the order: every
\* title and series-config edit saved before it is still shown.  Here:
\* after the rollback every item shown that the service holds has the title
\* and the series_config the service holds for it.
C20_RollbackKeepsSavedEdits ==
    ev.op = "reorderFail" =>
        \A k \in DOMAIN ms.items :
            HasItem(msSrv, ms.items[k].id) =>
                /\ ms.items[k].title = ItemById(msSrv, ms.items[k].id).title
                /\ ms.items[k].series_config
                      = ItemById(msSrv, ms.items[k].id).series_config

\* The rollback has put back the series_config an item had before a series
\* edit that was saved with success.
C20_RollbackRevertedSavedSeries ==
    /\ ev.op = "reorderFail"
    /\ msNet = {}
    /\ \E k \in DOMAIN ms.items :
          /\ HasItem(msSrv, ms.items[k].id)
          /\ ms.items[k].series_config # ItemById(msSrv, ms.items[k].id).series_config
          /\ ms.lastCommittedItems[k] = ms.items[k]

IsLoading(c, P) == \A k \in DOMAIN P.loading : c[P.loading[k]]

\* The request issued last for the load function fn of the root is in
\* flight in net: the one holding the current request id, or, for a
\* function that keeps no id, the newest one in flight while the flag, which
\* every call sets and every return clears, is on.
LatestInFlight(c, net, fn) ==
    {q \in net :
        /\ q.comp = "root" /\ q.fn = fn
        /\ IF RootLoads[fn].counter # "" THEN q.id = c[RootLoads[fn].counter]
           ELSE /\ IsLoading(c, RootLoads[fn])
                /\ \A q2 \in net : (q2.comp = "root" /\ q2.fn = fn) => q2.seq <= q.seq}

\* C22: a request that never completes leaves its panel loading: as long
\* as the request issued last for a panel is outstanding, the panel's
\* loading flag stays true.  Here, for the panels of the root: a step that
\* leaves that request in flight leaves the flag on.
C22_LoadingWhileLatestOutstanding ==
    [][\A fn \in DOMAIN RootLoads :
          (\E q \in LatestInFlight(root, dashNet, fn) :
              \E q2 \in dashNet' : q2.comp = "root" /\ q2.seq = q.seq)
            => IsLoading(root', RootLoads[fn])]_vars

\* An overview request has answered, the overview request issued after it
\* is still in flight, and the overview panel is not loading.
C22_OverviewIdleWhileLatestOutstanding ==
    /\ ev.op \in {"loadOk", "loadFail"} /\ ev.comp = "root" /\ ev.fn = "loadOverview"
    /\ \E q \in dashNet : q.comp = "root" /\ q.fn = "loadOverview" /\ q.seq > ev.seq
    /\ ~root.overviewLoading

\* The requests of the Lehr view's load function fn in flight.
LehrInFlight(fn) == {r \in dashNet : r.comp = "lehr" /\ r.fn = fn}

\* C23: mounting a sub-system dashboard view initializes it once: as a
\* result of the mount, the snapshot load, the default sub-view's panel load
\* and the incidents load are each issued exactly once.  Here, for the Lehr
\* view: right after the mount no load function has two requests in
\* flight, and once the loads of the mount have all answered, with nothing
\* else done to the view, three loads have been issued.
C23_MountLoadsEachPanelOnce ==
    /\ ev.op = "onMount" =>
          /\ Cardinality(LehrInFlight("loadSnapshot")) = 1
          /\ \A fn \in DOMAIN LehrLoads : Cardinality(LehrInFlight(fn)) <= 1
    /\ (lehr.mounted /\ dashOps = MaxLehrOps /\ dashNet = {}) => dashSeq = 3

\* The loads of the mount have all answered, with nothing else done to the
\* view: the snapshot, the Overhead panel and the incidents have each been
\* requested twice.
C23_MountLoadedEachPanelTwice ==
    /\ lehr.mounted /\ dashOps = MaxLehrOps /\ dashNet = {}
    /\ dashSeq = 6
    /\ lehr.selectedView = "Overhead"

\* C24 as stated: when the range key of a sub-system view changes, every
\* panel of that view is reloaded, the panels of sub-views that are not
\* active included.  Here, for the Lehr view: after the parent has passed a
\* range of another key, every load function of the view has a request for
\* the new key in flight.
C24_RangeChangeReloadsEveryPanel ==
    (ev.op = "rangeParams" /\ lehr.lastRangeKey = LehrKey)
        => \A fn \in DOMAIN LehrLoads : \E r \in LehrInFlight(fn) : r.key = LehrKey

\* The panels of a sub-view of the Lehr view, by the load functions that
\* fill them.
LehrPanelsOf(view) ==
    CASE view = "Exit" -> {"loadExit", "loadDumpGate"}
      [] view = "System Health" -> {"loadSystemHealth"}
      [] OTHER -> {"loadOverhead"}

\* C24, amended: when the range key of a sub-system view changes, the
\* snapshot, the panels of the active sub-view and the incidents are
\* reloaded for the new key, each once, and no panel of another sub-view
\* is.
C24_RangeChangeReloadsActivePanels ==
    [][(ev'.op = "rangeParams" /\ RangeKey(RangeOption(props'.range)) # LehrKey)
          => /\ {r.fn : r \in dashNet' \ dashNet}
                   = {"loadSnapshot", "loadIncidents"} \cup LehrPanelsOf(lehr.selectedView)
             /\ \A r \in dashNet' \ dashNet :
                   /\ r.comp = "lehr" /\ r.key = RangeKey(RangeOption(props'.range))
                   /\ \A q \in dashNet' \ dashNet : q.fn = r.fn => q = r]_vars

\* The range key has changed: the snapshot, the active Overhead panel and
\* the incidents are requested for the new key, the Exit panel is not.
C24_InactivePanelNotReloaded ==
    /\ ev.op = "rangeParams" /\ lehr.lastRangeKey = LehrKey
    /\ lehr.selectedView = "Overhead"
    /\ \A fn \in {"loadSnapshot", "loadOverhead", "loadIncidents"} :
          \E r \in LehrInFlight(fn) : r.key = LehrKey
    /\ LehrInFlight("loadExit") = {}

\* The requests a step has issued.
Issued == dashNet' \ dashNet

\* The panels filled by the load function fn of the Lehr view hold data
\* loaded for the range key in force.
LehrLoadedForKey(c, fn) ==
    \A k \in DOMAIN LehrLoads[fn].data :
        /\ c[LehrLoads[fn].data[k]].seq # 0
        /\ c[LehrLoads[fn].data[k]].key = LehrKey

ScalePanelsOf(view) ==
    CASE view = "Overview" -> {"loadOverview"}
      [] view \in {"Bay 1", "Bay 2"} -> {"loadBayData"}
      [] OTHER -> {"loadCameraHealth"}

\* The load functions of the scale weight view that ask for one system.
ScaleSystemScoped == {"loadOverview", "loadBayData", "loadCameraHealth"}

GeneralLoads == {"loadOverview", "loadLineData", "loadIncidentsData"}

\* C28: for a tenant of a dedicated dashboard type the root has none of the
\* general quality requests (overview, line metrics and time series,
\* incidents) in flight, neither after the tenant's load nor after a range
\* change.
C28_NoGeneralRequestForDedicatedType ==
    \A q \in dashNet :
        q.comp = "root" /\ q.fn \in GeneralLoads
            => TenantConfig(q.arg.tenantId).dashboard_type \notin DedicatedTypes

\* A range is selected on the sidewall dashboard and the root asks for the
\* overview of the sidewall tenant.
C28_OverviewRequestedForSidewallTenant ==
    /\ ev.op = "handleRangeChange"
    /\ Rendered(root) = "sidewall"
    /\ \E q \in dashNet :
          /\ q.comp = "root" /\ q.fn = "loadOverview"
          /\ q.arg.tenantId = "sidewall"
          /\ q.key = RootKey(root)

(***************************************************************************)
(* Tenant dashboard root: the range selection of a tenant                  *)
(***************************************************************************)

\* No loadDashboard is under way and the last one has not failed.
DashboardSettled ==
    /\ root.mounted /\ root.tenantConfig # "" /\ root.error = Null
    /\ \A q \in dashNet : ~(q.comp = "root" /\ q.fn = "loadDashboard")

\* The range options of a tenant without configured time_ranges.
TenantRangeOptions(tenantId) ==
    IF TenantConfig(tenantId).dashboard_type = "sidewall" THEN SidewallRangeOptions
    ELSE DefaultRangeOptions

\* C29: once the load of a tenant selection is over, the range selection is
\* the default of the selected tenant's dashboard type (12h for sidewall,
\* 7d for general quality) and one of that tenant's range options.
C29_RangeIsDefaultOfSelectedTenant ==
    DashboardSettled =>
        /\ root.rangeSelection
              = DefaultRange(TenantConfig(root.selectedTenantId).dashboard_type)
        /\ root.rangeSelection \in Range(TenantRangeOptions(root.selectedTenantId))

\* The sidewall tenant is selected, every load is over, and the range is
\* the one derived for the shift tenant.
C29_SidewallTenantOnShiftRange ==
    /\ DashboardSettled
    /\ root.selectedTenantId = "sidewall"
    /\ root.rangeTenantId = "shift"
    /\ root.rangeSelection = "7d"

(***************************************************************************)
(* Tenant dashboard root: the FinalCheck line and the systems of a line    *)
(***************************************************************************)

\* No loadDashboard is under way.
SelSettled ==
    /\ sel.mounted /\ sel.tenants = 0
    /\ \A tenantId \in Range(PlantTenants) :
          sel.configs[tenantId] = 0 /\ sel.loads[tenantId] = 0

\* C27: whenever no load of the root is under way and the selected system is
\* FinalCheck, the selected line is the tenant's FinalCheck line
\* (finalcheck_line_id, 'CX' by default).
C27_FinalCheckOnItsLine ==
    SelSettled /\ sel.selectedSystem = "finalcheck"
        => sel.selectedLine = FinalcheckLineId(TenantConfig(sel.tenantConfig))

\* FinalCheck has been selected on the line details of a tenant whose
\* FinalCheck line is none of its selectable lines, and the first of those
\* lines is selected.
C27_FinalCheckOnSelectableLine ==
    /\ SelSettled /\ SelRendered(sel) = "general"
    /\ ev.op = "handleSystemChange" /\ ev.arg.system = "finalcheck"
    /\ sel.selectedSystem = "finalcheck"
    /\ sel.tenantConfig = "glass" /\ sel.selectedLine = "L1"

\* C30: the systems the selected system was validated against and defaulted
\* from last are the systems of the line in the line -> systems map derived
\* from the tenant's config, the flat list of the tenant where the map has
\* no entry for the line.
C30_ValidatedAgainstDerivedSystems ==
    sel.checked.tenantId # ""
        => sel.checked.systems
              = BaseSystemsForLine(TenantConfig(sel.checked.tenantId), sel.checked.lineId)

\* A line of the nested config is selected with a system its solutions do
\* not list: the line data of that system was asked for, and the system
\* selection has moved on to the line's own system since.
C30_LineDataOfUnlistedSystem ==
    /\ ev.op = "handleLineChange" /\ SelRendered(sel) = "general"
    /\ sel.tenantConfig = "glass"
    /\ sel.lineLoad.lineId = sel.selectedLine
    /\ sel.lineLoad.system
          \notin Range(SupportedSystemsForLine(TenantConfig(sel.tenantConfig),
                                               sel.selectedLine))
    /\ sel.selectedSystem # sel.lineLoad.system

====
